---- MODULE Spec2Model ----
(***************************************************************************)
(* A model of backtrace-rs: the process-wide reentrancy lock (src/lib.rs), *)
(* the public entry points that take it (trace, format_trace, resolve,     *)
(* clear_symbol_cache) and the gimli symbolizer with its LRU cache of      *)
(* parsed mappings and its DWARF -> symbol table -> dladdr fallback chain  *)
(* (src/symbolize/gimli.rs, src/symbolize/dladdr.rs).                      *)
(*                                                                         *)
(* Library indices and sequence positions are 1-based here (0-based in the *)
(* Rust source); index 1 of `mappings` is the most recently used entry.    *)
(***************************************************************************)
EXTENDS Integers, Sequences, FiniteSets, TLC

VARIABLES
    LOCK_HELD,    \* thread -> BOOLEAN, the thread-local flag of mod lock
    LOCK,         \* TRUE once INIT.call_once has created the global Mutex
    mutexOwner,   \* the thread owning the MutexGuard of *LOCK, 0 when free
    poisoned,     \* the Mutex was unlocked by a panicking thread
    stack,        \* thread -> sequence of activations of entry points
    MAPPINGS_CACHE, \* TRUE once the global Option<Cache> is Some
    libraries,    \* Cache.libraries: the snapshot of native_libraries()
    mappings,     \* Cache.mappings: sequence of [lib, mapping], index 1 = MRU
    refs,         \* history: libraries whose mapping was obtained since the
                  \* last clear, most recently referenced first, no repeats
    probe,        \* history: the address whose results are compared
    probeRes,     \* history: symbols of the first resolve(probe) completed
                  \* since the last clear_symbol_cache, or Unset
    probeFirst,   \* history: symbols of the first resolve(probe) completed
                  \* at all, or Unset
    loaded,       \* the images the dynamic loader has mapped right now
    dbghelp,      \* src/dbghelp.rs: the LOCK static, the named mutex it
                  \* names, DBGHELP and INITIALIZED
    inits,        \* thread -> its dbghelp::init call in progress and the
                  \* number of Init values it holds
    symFile,      \* an object file under examination: its format and the
                  \* records of its symbol table, NoFile when there is none
    symObject,    \* what Object::parse made of symFile, Unset before
    symFound,     \* the last search_symtab on symObject: [addr, res]
    macho,        \* a Mach-O binary, the dSYM bundles beside it and what
                  \* Mapping::new (macOS) made of them
    maps,         \* a line of /proc/self/maps, the fields it was written
                  \* from and the MapsEntry parsed from it
    capture,      \* a Backtrace value: the stack it was captured on, the
                  \* value `bt` the constructor returned, the value `ret`
                  \* its resolve() returned and the last frames() result
    libbt,        \* a resolve call of the libbacktrace backend: what the
                  \* library is going to report and what cb has received
    bows          \* a BytesOrWideString, the platform of the build and
                  \* what into_path_buf returned for it

vars == <<LOCK_HELD, LOCK, mutexOwner, poisoned, stack, MAPPINGS_CACHE,
          libraries, mappings, refs, probe, probeRes, probeFirst,
          loaded, dbghelp, inits, symFile, symObject, symFound,
          macho, maps, capture, libbt, bows>>

lockVars == <<LOCK_HELD, LOCK, mutexOwner, poisoned>>
cacheVars == <<MAPPINGS_CACHE, libraries, mappings, refs>>
histVars == <<probe, probeRes, probeFirst>>
progVars == <<LOCK_HELD, LOCK, mutexOwner, poisoned, stack, MAPPINGS_CACHE,
              libraries, mappings, refs, probe, probeRes, probeFirst,
              loaded, dbghelp, inits>>
symVars == <<symFile, symObject, symFound>>
machoVars == <<macho>>
mapsVars == <<maps>>
captureVars == <<capture>>
libbtVars == <<libbt>>
bowsVars == <<bows>>
inputVars == <<symVars, machoVars, mapsVars, captureVars, libbtVars, bowsVars>>
envVars == <<loaded, dbghelp, inits, inputVars>>

----------------------------------------------------------------------------
(* Bounds of the model *)

NumThreads == 2
MaxDepth == 2
MaxFrames == 2
NumLibs == 8
MaxInits == 2
MaxSyms == 3
MaxEntries == 2
MaxDsymFiles == 2
MaxGap == 2
MaxCallers == 2
MaxReports == 3
MaxUnits == 3
WordBits == 10

(* Program constant *)
MAPPINGS_CACHE_SIZE == 4

\* usize and u64 values are the naturals below Word.
Word == 2^WordBits

Threads == 1..NumThreads
Libs == 1..NumLibs

None == [none |-> TRUE]
Unset == [set |-> FALSE, out |-> << >>]
NoProbe == 0 - 1

\* src/dbghelp.rs before its first use: LOCK is null (0), the named mutex
\* does not exist or is free, no handle to it was created or closed,
\* dbghelp.dll is not opened, INITIALIZED is false.
DbghelpInit ==
    [LOCK |-> 0, owner |-> 0, count |-> 0,
     created |-> {}, closed |-> {},
     opened |-> FALSE, INITIALIZED |-> FALSE]

\* A thread outside dbghelp::init that holds no Init; lock is the local
\* `lock` of init, 0 for null.
NoInit == [pc |-> "idle", held |-> 0, lock |-> 0]

\* No object file is under examination.
NoFile == [format |-> "none"]

\* The outcome of an operation that panicked.
Panicked == [panic |-> TRUE]

\* Nothing is examined apart from the running program.
IdleSym ==
    /\ symFile = NoFile
    /\ symObject = Unset
    /\ symFound = Unset

IdleMacho == macho = NoFile

IdleMaps == maps = NoFile

IdleCapture == capture = NoFile

IdleLibbt == libbt = NoFile

IdleBows == bows = NoFile

IdleInputs ==
    /\ IdleSym /\ IdleMacho /\ IdleMaps /\ IdleCapture
    /\ IdleLibbt /\ IdleBows

----------------------------------------------------------------------------
(* The process image: loaded libraries, their files, the dynamic loader *)

Bias(i) == 100 * i

Segments(i) ==
    << [stated_virtual_memory_address |-> 0, len |-> 4],
       [stated_virtual_memory_address |-> 10, len |-> 2] >>

\* What dl_iterate_phdr reports: one Library per loaded image, in load order.
native_libraries ==
    SelectSeq([i \in Libs |->
                  [name |-> i, segments |-> Segments(i), bias |-> Bias(i)]],
              LAMBDA lib : lib.name \in loaded)

\* The file behind each library name.  "dwarf": sound debug info and symbol
\* table.  "nodwarf": no debug sections.  "ctxfail", "lookupfail", "iterfail":
\* corrupted debug sections on which addr2line fails when the context is
\* built, when an address is looked up, or after the first frame of a lookup;
\* the symbol table of these files is intact.  "nofile": open or mmap fails.
\* "noobject": the bytes are no ELF object.
FileKind(f) ==
    CASE f = 3 -> "ctxfail"
      [] f = 6 -> "nofile"
      [] f = 8 -> "noobject"
      [] f % 4 = 1 -> "dwarf"
      [] f % 4 = 2 -> "nodwarf"
      [] f % 4 = 0 -> "lookupfail"
      [] OTHER -> "iterfail"

\* The address-sorted function symbols of file f (ParsedSym).
FileSyms(f) == << [address |-> 0, size |-> 3, name |-> f] >>

\* File/line records of file f's DWARF for an SVMA, innermost first.
FileFrames(f, svma) ==
    IF svma = 1
    THEN << [function |-> "inlined", line |-> 20 + f],
            [function |-> "outer", line |-> 10 + f] >>
    ELSE << >>

\* libc::dladdr: the loader knows the exported symbols of the odd-numbered
\* images and of one image (address 5) that is in no snapshot of the library
\* list.
dladdr(addr) ==
    IF addr = 5 THEN [dli_saddr |-> 5, dli_sname |-> "ext"]
    ELSE IF \E i \in Libs : i % 2 = 1 /\ addr \in Bias(i)..(Bias(i) + 3)
         THEN [dli_saddr |-> addr, dli_sname |-> "exp"]
         ELSE None

\* Addresses whose results are compared from one resolve to the next.
ProbeAddrs ==
    {0, 5} \cup {Bias(i) + 1 : i \in Libs} \cup {Bias(1) + 2, Bias(1) + 10}

\* Addresses handed to resolve: the above and the first and last address of
\* the segments of library 2 and the address past its first segment.
SeqAddrs == ProbeAddrs \cup {Bias(2), Bias(2) + 3, Bias(2) + 4, Bias(2) + 11}

ConcAddrs == {0, Bias(1) + 1}

\* The instruction pointer of the k-th frame the stack walker yields.
FrameIp(k) == Bias(((k - 1) % 2) + 1) + 1

----------------------------------------------------------------------------
(* Object, Mapping and Context (src/symbolize/gimli.rs) *)

\* fn mmap(path): File::open, metadata, Mmap::map.
mmap(path) == IF FileKind(path) = "nofile" THEN None ELSE [bytes |-> path]

\* Object::parse: the ELF headers, sections and the sorted symbol list.
ObjectParse(map) ==
    IF FileKind(map.bytes) = "noobject" THEN None
    ELSE [file |-> map.bytes, syms |-> FileSyms(map.bytes)]

\* fn cx(object): addr2line::Context::from_sections(..).ok()?
cx(object) ==
    IF FileKind(object.file) = "ctxfail" THEN None
    ELSE [dwarf |-> object.file, object |-> object]

\* Mapping::new (not macOS): mmap(path)?, Object::parse(&map)?, cx(..)?
MappingNew(path) ==
    LET map == mmap(path) IN
    IF map = None THEN None
    ELSE LET object == ObjectParse(map) IN
         IF object = None THEN None
         ELSE LET c == cx(object) IN
              IF c = None THEN None ELSE [cx |-> c, map |-> map]

\* cx.dwarf.find_frames(addr) followed by the `while let Ok(Some(frame))`
\* loop: the frames the loop body receives before the iterator ends or fails.
find_frames(context, svma) ==
    LET k == FileKind(context.dwarf) IN
    IF k \in {"nodwarf", "lookupfail"} THEN << >>
    ELSE IF k = "iterfail"
         THEN SubSeq(FileFrames(context.dwarf, svma), 1,
                     IF Len(FileFrames(context.dwarf, svma)) > 0 THEN 1 ELSE 0)
         ELSE FileFrames(context.dwarf, svma)

\* slice::binary_search_by_key over syms by address: [ok, i], i 1-based; on
\* Err, i is the 1-based insertion point.
binary_search_by_key(syms, addr) ==
    IF \E i \in 1..Len(syms) : syms[i].address = addr
    THEN [ok |-> TRUE, i |-> CHOOSE i \in 1..Len(syms) : syms[i].address = addr]
    ELSE [ok |-> FALSE,
          i |-> 1 + Cardinality({i \in 1..Len(syms) : syms[i].address < addr})]

\* Object::search_symtab (ELF).
search_symtab(object, addr) ==
    LET r == binary_search_by_key(object.syms, addr)
        i == IF r.ok THEN r.i ELSE r.i - 1
    IN IF i < 1 \/ i > Len(object.syms) THEN None
       ELSE LET sym == object.syms[i] IN
            IF sym.address <= addr /\ addr <= (sym.address + sym.size) % Word
            THEN [name |-> sym.name]
            ELSE None

----------------------------------------------------------------------------
(* Cache (src/symbolize/gimli.rs) *)

\* Cache::new: an empty mapping list and the enumerated libraries.
CacheNew == [mappings |-> << >>, libraries |-> native_libraries]

\* Mutant of SegmentContains: the lower bound of the segment is not tested.
SegmentContainsNoStart(lib, addr) ==
    \E k \in 1..Len(lib.segments) :
        LET svma == lib.segments[k].stated_virtual_memory_address
            start == svma + lib.bias
            end == start + lib.segments[k].len
        IN addr < end

\* The segment test of avma_to_svma: does lib have a segment containing addr?
SegmentContains(lib, addr) ==
    \E k \in 1..Len(lib.segments) :
        LET svma == lib.segments[k].stated_virtual_memory_address
            start == svma + lib.bias
            end == start + lib.segments[k].len
        IN start <= addr /\ addr < end

\* Mutant of avma_to_svma: the bias is not subtracted.
avma_to_svmaNoBias(libs, addr) ==
    LET hits == {i \in 1..Len(libs) : SegmentContains(libs[i], addr)} IN
    IF hits = {} THEN None
    ELSE LET i == CHOOSE i \in hits : \A j \in hits : i <= j
         IN [lib |-> i, svma |-> addr]

\* Cache::avma_to_svma (not Windows): the first library, in list order, with
\* a segment containing addr, and addr less that library's bias.
avma_to_svma(libs, addr) ==
    LET hits == {i \in 1..Len(libs) : SegmentContains(libs[i], addr)} IN
    IF hits = {} THEN None
    ELSE LET i == CHOOSE i \in hits : \A j \in hits : i <= j
         IN [lib |-> i, svma |-> addr - libs[i].bias]

\* Mutant of position: any cached entry passes for the library looked up.
positionOfAny(ms, lib) == IF ms # << >> THEN 1 ELSE 0

\* Mutant of position: the library is never found.
positionNever(ms, lib) == 0

\* self.mappings.iter().position(|(idx, _)| *idx == lib), 0 for None.
position(ms, lib) ==
    IF \E k \in 1..Len(ms) : ms[k].lib = lib
    THEN CHOOSE k \in 1..Len(ms) :
            ms[k].lib = lib /\ \A j \in 1..(k - 1) : ms[j].lib # lib
    ELSE 0

\* Mutant of MoveToFront: the entry hit changes places with the front one.
MoveToFrontSwap(ms, idx) == [ms EXCEPT ![1] = ms[idx], ![idx] = ms[1]]

\* Mutant of MoveToFront: a hit leaves the list as it is.
MoveToFrontNoMove(ms, idx) == ms

\* Vec::remove(idx) followed by Vec::insert(0, entry): the hit branch.
MoveToFront(ms, idx) ==
    IF idx # 1
    THEN <<ms[idx]>> \o SubSeq(ms, 1, idx - 1) \o SubSeq(ms, idx + 1, Len(ms))
    ELSE ms

\* Mutant of Evict: nothing is popped at capacity.
EvictNever(ms) == ms

\* `if self.mappings.len() == MAPPINGS_CACHE_SIZE { self.mappings.pop(); }`
Evict(ms) ==
    IF Len(ms) = MAPPINGS_CACHE_SIZE THEN SubSeq(ms, 1, Len(ms) - 1) ELSE ms

\* Mutant of InsertFront: the new entry is pushed at the back.
InsertBack(ms, lib, mapping) ==
    Evict(ms) \o <<[lib |-> lib, mapping |-> mapping]>>

\* The miss branch once Mapping::new succeeded: evict, then insert at 0.
InsertFront(ms, lib, mapping) ==
    <<[lib |-> lib, mapping |-> mapping]>> \o Evict(ms)

\* The path of library index lib, the current executable (file 1) when the
\* index is outside the list.
LibPath(libs, lib) == IF lib \in 1..Len(libs) THEN libs[lib].name ELSE 1

\* Mutant of mapping_for_lib: room is made before the mapping is built.
mapping_for_libEvictFirst(ms, libs, lib) ==
    LET idx == position(ms, lib) IN
    IF idx # 0
    THEN LET moved == MoveToFront(ms, idx)
         IN [cx |-> moved[1].mapping.cx, mappings |-> moved]
    ELSE LET mapping == MappingNew(LibPath(libs, lib)) IN
         IF mapping = None
         THEN [cx |-> None, mappings |-> Evict(ms)]
         ELSE LET ins == InsertFront(ms, lib, mapping)
              IN [cx |-> ins[1].mapping.cx, mappings |-> ins]

\* Mutant of mapping_for_lib: a hit hands out the front entry as it is.
mapping_for_libFrontAsIs(ms, libs, lib) ==
    LET idx == position(ms, lib) IN
    IF idx # 0
    THEN [cx |-> ms[1].mapping.cx, mappings |-> ms]
    ELSE LET mapping == MappingNew(LibPath(libs, lib)) IN
         IF mapping = None
         THEN [cx |-> None, mappings |-> ms]
         ELSE LET ins == InsertFront(ms, lib, mapping)
              IN [cx |-> ins[1].mapping.cx, mappings |-> ins]

\* Cache::mapping_for_lib: [cx, mappings], cx = None when it returns None.
mapping_for_lib(ms, libs, lib) ==
    LET idx == position(ms, lib) IN
    IF idx # 0
    THEN LET moved == MoveToFront(ms, idx)
         IN [cx |-> moved[1].mapping.cx, mappings |-> moved]
    ELSE LET mapping == MappingNew(LibPath(libs, lib)) IN
         IF mapping = None
         THEN [cx |-> None, mappings |-> ms]
         ELSE LET ins == InsertFront(ms, lib, mapping)
              IN [cx |-> ins[1].mapping.cx, mappings |-> ins]

\* History: the reference order an ideal LRU list would keep.
Touch(rs, lib) == <<lib>> \o SelectSeq(rs, LAMBDA x : x # lib)

----------------------------------------------------------------------------
(* Activations: one record per entry point a thread is executing *)

\* pc: "lock" (about to test LOCK_HELD), "acquire" (blocked on the Mutex),
\* "body" (lock() returned), "frames0" (about to call with_global),
\* "construct" (with_global found MAPPINGS_CACHE None), "incache" (about to
\* run the closure on the cache), "frames" (in the closure, past
\* mapping_for_lib), "drop" (after with_global), "walk" (the second pass of
\* format_trace), "cb" (inside the callback), "ret" (about to return and drop
\* _guard).
\* lib and svma are what avma_to_svma returned (lib 0 for None), `before` is
\* the mapping list the closure of with_global found (kept until the next
\* step of the call), `alloc` tells that the call allocated memory.  For
\* trace, `out` lists the frames passed to the callback by their position in
\* the backend's order and `rets` what the callback returned for each.
\* The arguments of a call (the address of resolve, the mode of format_trace)
\* and the frames on the stack are not read before lock() has returned, and
\* are entered in the activation by the first step of the body.
NewAct(op, user, pc) ==
    [op |-> op, user |-> user, pc |-> pc, guard |-> FALSE,
     addr |-> 0, svma |-> 0, cx |-> None, pend |-> << >>, out |-> << >>,
     called |-> FALSE, dl |-> << >>,
     n |-> 0, i |-> 0, e |-> 0, mode |-> "Full", stop |-> "no",
     lib |-> 0, before |-> << >>, alloc |-> FALSE, rets |-> << >>,
     init |-> FALSE]

Top(t) == stack[t][Len(stack[t])]

SetTop(t, act) == [stack EXCEPT ![t] = [@ EXCEPT ![Len(@)] = act]]

Push(t, act) == [stack EXCEPT ![t] = Append(@, act)]

UserDepth(t) == Cardinality({k \in 1..Len(stack[t]) : stack[t][k].user})

HoldsGuard(t) == \E k \in 1..Len(stack[t]) : stack[t][k].guard

\* User code may call an entry point when the thread is idle or is inside a
\* callback that user code supplied to trace or resolve.
InUserCode(t) ==
    \/ stack[t] = << >>
    \/ /\ stack[t] # << >>
       /\ Top(t).pc = "cb" /\ Top(t).user
       /\ Top(t).op \in {"trace", "resolve"}
       /\ UserDepth(t) < MaxDepth

Init ==
    /\ LOCK_HELD = [t \in Threads |-> FALSE]
    /\ LOCK = FALSE
    /\ mutexOwner = 0
    /\ poisoned = FALSE
    /\ stack = [t \in Threads |-> << >>]
    /\ MAPPINGS_CACHE = FALSE
    /\ libraries = << >>
    /\ mappings = << >>
    /\ refs = << >>
    /\ probe = NoProbe
    /\ probeRes = Unset
    /\ probeFirst = Unset
    /\ loaded = Libs
    /\ dbghelp = DbghelpInit
    /\ inits = [t \in Threads |-> NoInit]
    /\ IdleInputs

----------------------------------------------------------------------------
(* mod lock (src/lib.rs) *)

\* Mutant of Unavailable: the entry point gives up when lock() returned None.
UnavailableReturns(act) == [act EXCEPT !.pc = "ret", !.guard = FALSE]

\* An entry point whose lock() returned None: `let _guard = lock();` keeps
\* the None and the body runs all the same, under no guard of its own.
Unavailable(act) == [act EXCEPT !.pc = "body", !.guard = FALSE]

\* INIT.call_once(|| LOCK = transmute(Box::new(Mutex::new(())))): the
\* closure runs in the first call only, and Box::new allocates in it.
CallOnce(act) == [act EXCEPT !.pc = "acquire", !.alloc = ~LOCK]

\* Mutant of LockEntry: the LOCK_HELD test is missing, so a thread that holds
\* the guard goes on to Mutex::lock.
LockEntryNoTest(t, act) ==
    /\ LOCK_HELD' = [LOCK_HELD EXCEPT ![t] = TRUE]
    /\ LOCK' = TRUE
    /\ stack' = SetTop(t, CallOnce(act))
    /\ UNCHANGED <<mutexOwner, poisoned>>

\* lock(), up to the blocking Mutex::lock: the LOCK_HELD test, the early
\* `return None`, LOCK_HELD.set(true) and INIT.call_once.
LockEntry(t, act) ==
    IF LOCK_HELD[t]
    THEN /\ stack' = SetTop(t, Unavailable(act))
         /\ UNCHANGED lockVars
    ELSE /\ LOCK_HELD' = [LOCK_HELD EXCEPT ![t] = TRUE]
         /\ LOCK' = TRUE
         /\ stack' = SetTop(t, CallOnce(act))
         /\ UNCHANGED <<mutexOwner, poisoned>>

LockCheck(t) ==
    /\ stack[t] # << >>
    /\ Top(t).pc = "lock"
    /\ LockEntry(t, Top(t))
    /\ UNCHANGED <<cacheVars, histVars, envVars>>

\* Unwinding of a panic through every activation of the thread: each live
\* LockGuard is dropped (LOCK_HELD := false), and its MutexGuard, dropped
\* while panicking, poisons and unlocks the Mutex.
Unwind(t) ==
    /\ stack' = [stack EXCEPT ![t] = << >>]
    /\ IF HoldsGuard(t)
       THEN /\ LOCK_HELD' = [LOCK_HELD EXCEPT ![t] = FALSE]
            /\ mutexOwner' = 0
            /\ poisoned' = TRUE
       ELSE UNCHANGED <<LOCK_HELD, mutexOwner, poisoned>>
    /\ UNCHANGED LOCK

\* Whether Mutex::lock may return: the Mutex is free.
MutexFree(t) == mutexOwner = 0

\* `Some(LockGuard((*LOCK).lock().unwrap()))`: blocks until the Mutex is
\* free; on a poisoned Mutex the unwrap panics, the guard inside the error is
\* dropped again and LOCK_HELD is left as it is.
LockAcquire(t) ==
    /\ stack[t] # << >>
    /\ Top(t).pc = "acquire"
    /\ MutexFree(t)
    /\ IF poisoned
       THEN Unwind(t)
       ELSE /\ mutexOwner' = t
            /\ stack' = SetTop(t, [Top(t) EXCEPT !.pc = "body", !.guard = TRUE])
            /\ UNCHANGED <<LOCK_HELD, LOCK, poisoned>>
    /\ UNCHANGED <<cacheVars, histVars, envVars>>

\* Drop for LockGuard, then the drop of its MutexGuard field.
DropGuard(t, act) ==
    IF act.guard
    THEN /\ LOCK_HELD' = [LOCK_HELD EXCEPT ![t] = FALSE]
         /\ mutexOwner' = 0
         /\ UNCHANGED <<LOCK, poisoned>>
    ELSE UNCHANGED lockVars

\* The entry point returns: `_guard` goes out of scope.
Return(t) ==
    /\ stack[t] # << >>
    /\ Top(t).pc = "ret"
    /\ DropGuard(t, Top(t))
    /\ stack' = [stack EXCEPT ![t] = SubSeq(@, 1, Len(@) - 1)]
    /\ probeRes' = IF /\ Top(t).op = "resolve" /\ Top(t).user
                      /\ Top(t).addr = probe /\ ~probeRes.set
                   THEN [set |-> TRUE, out |-> Top(t).out]
                   ELSE probeRes
    /\ probeFirst' = IF /\ Top(t).op = "resolve" /\ Top(t).user
                        /\ Top(t).addr = probe /\ ~probeFirst.set
                     THEN [set |-> TRUE, out |-> Top(t).out]
                     ELSE probeFirst
    /\ UNCHANGED <<cacheVars, probe, envVars>>

----------------------------------------------------------------------------
(* Public entry points *)

\* pub fn trace(cb): `let _guard = lock(); trace_unsynchronized(cb)`.
CallTrace(t) ==
    /\ InUserCode(t)
    /\ stack' = Push(t, NewAct("trace", TRUE, "lock"))
    /\ UNCHANGED <<lockVars, cacheVars, histVars, envVars>>

\* pub fn format_trace(stream, mode): `let _guard = lock(); write!(..)`.
CallFormatTrace(t) ==
    /\ InUserCode(t)
    /\ stack' = Push(t, NewAct("format_trace", TRUE, "lock"))
    /\ UNCHANGED <<lockVars, cacheVars, histVars, envVars>>

\* pub fn resolve(addr, cb): the lock, then the symbolizer's resolve.
CallResolve(t) ==
    /\ InUserCode(t)
    /\ stack' = Push(t, NewAct("resolve", TRUE, "lock"))
    /\ UNCHANGED <<lockVars, cacheVars, histVars, envVars>>

\* pub fn clear_symbol_cache(): the lock, then the symbolizer's clear.
CallClear(t) ==
    /\ InUserCode(t)
    /\ stack' = Push(t, NewAct("clear_symbol_cache", TRUE, "lock"))
    /\ UNCHANGED <<lockVars, cacheVars, histVars, envVars>>

----------------------------------------------------------------------------
(* The stack walker: trace_unsynchronized (src/backtrace/mod.rs) *)

\* The backend sets itself up (dbghelp::init() in the dbghelp backend): when
\* that fails trace returns at once, `Err(()) => return`.
TraceInit(t, ok) ==
    /\ stack[t] # << >>
    /\ Top(t).op = "trace" /\ Top(t).pc = "body"
    /\ stack' = SetTop(t, IF ok
                          THEN [Top(t) EXCEPT !.pc = "walk"]
                          ELSE [Top(t) EXCEPT !.pc = "ret", !.stop = "initfail"])
    /\ UNCHANGED <<lockVars, cacheVars, histVars, envVars>>

\* The walker yields the next frame and invokes the callback with it; a
\* stack has at most MaxFrames frames.
TraceFrame(t) ==
    /\ stack[t] # << >>
    /\ Top(t).op = "trace" /\ Top(t).pc = "walk"
    /\ Top(t).i < MaxFrames
    /\ stack' = SetTop(t, [Top(t) EXCEPT !.i = @ + 1, !.pc = "cb",
                                         !.out = Append(@, Top(t).i + 1)])
    /\ UNCHANGED <<lockVars, cacheVars, histVars, envVars>>

\* Mutant of AfterCallback: the walk goes on whatever the callback returned.
AfterCallbackGoesOn(act, continue) ==
    [act EXCEPT !.pc = "walk", !.rets = Append(@, continue)]

\* `if !cb(&frame) { break; }`
AfterCallback(act, continue) ==
    IF continue
    THEN [act EXCEPT !.pc = "walk", !.rets = Append(@, continue)]
    ELSE [act EXCEPT !.pc = "ret", !.stop = "callback",
                     !.rets = Append(@, continue)]

\* The callback returns.
TraceCallbackReturn(t, continue) ==
    /\ stack[t] # << >>
    /\ Top(t).op = "trace" /\ Top(t).pc = "cb"
    /\ stack' = SetTop(t, AfterCallback(Top(t), continue))
    /\ UNCHANGED <<lockVars, cacheVars, histVars, envVars>>

\* The walker has no further frame (the no-op backend never has one).
TraceEnd(t) ==
    /\ stack[t] # << >>
    /\ Top(t).op = "trace" /\ Top(t).pc = "walk"
    /\ stack' = SetTop(t, [Top(t) EXCEPT !.pc = "ret", !.stop = "exhausted"])
    /\ UNCHANGED <<lockVars, cacheVars, histVars, envVars>>

\* A callback supplied by user code panics.
CallbackPanic(t) ==
    /\ stack[t] # << >>
    /\ Top(t).pc = "cb" /\ Top(t).user
    /\ Unwind(t)
    /\ UNCHANGED <<cacheVars, histVars, envVars>>

----------------------------------------------------------------------------
(* format_trace: fmt::Debug for FormatTrace (src/format.rs) *)

\* The first pass (Short mode): the 0-based index of the first frame whose
\* symbol_address is the entry point, -1 when there is none.
RECURSIVE ScanEntry(_, _, _)
ScanEntry(i, n, e) ==
    IF i >= n THEN -1
    ELSE IF i + 1 = e THEN i ELSE ScanEntry(i + 1, n, e)

\* Mutant of print_fn_frame: the first pass runs in every mode.
print_fn_frameAnyMode(act) == ScanEntry(0, act.n, act.e)

print_fn_frame(act) ==
    IF act.mode = "Short" THEN ScanEntry(0, act.n, act.e) ELSE -1

\* fmt() starts: the mode, the n frames on the stack and the position e
\* among them of the frame whose symbol_address is format_trace itself (0
\* when no frame has it) are fixed; the first pass is print_fn_frame.
FormatBegin(t, mode, n, e) ==
    /\ stack[t] # << >>
    /\ Top(t).op = "format_trace" /\ Top(t).pc = "body"
    /\ stack' = SetTop(t, [Top(t) EXCEPT !.mode = mode, !.n = n, !.e = e,
                                         !.pc = "walk"])
    /\ UNCHANGED <<lockVars, cacheVars, histVars, envVars>>

\* The second pass, one frame: skipped when i <= print_fn_frame, else
\* resolved through resolve_frame_unsynchronized and printed.
FormatFrame(t) ==
    /\ stack[t] # << >>
    /\ Top(t).op = "format_trace" /\ Top(t).pc = "walk"
    /\ Top(t).i < Top(t).n
    /\ LET act == Top(t)
           skip == act.i <= print_fn_frame(act)
       IN IF skip
          THEN stack' = SetTop(t, [act EXCEPT !.i = @ + 1])
          ELSE stack' = [stack EXCEPT ![t] =
                  Append([@ EXCEPT ![Len(@)] =
                             [act EXCEPT !.i = @ + 1,
                                         !.out = Append(@, act.i + 1)]],
                         [NewAct("resolve", FALSE, "frames0")
                             EXCEPT !.addr = FrameIp(act.i + 1)])]
    /\ UNCHANGED <<lockVars, cacheVars, histVars, envVars>>

\* The walker has no further frame: f.finish().
FormatEnd(t) ==
    /\ stack[t] # << >>
    /\ Top(t).op = "format_trace" /\ Top(t).pc = "walk"
    /\ Top(t).i = Top(t).n
    /\ stack' = SetTop(t, [Top(t) EXCEPT !.pc = "ret", !.stop = "exhausted"])
    /\ UNCHANGED <<lockVars, cacheVars, histVars, envVars>>

----------------------------------------------------------------------------
(* The symbolizer: resolve and clear_symbol_cache (src/symbolize/gimli.rs) *)

FrameSymbol(svma, frame) ==
    [tier |-> "Frame", addr |-> svma, name |-> frame.function, line |-> frame.line]

SymtabSymbol(svma, name) == [tier |-> "Symtab", addr |-> svma, name |-> name]

DladdrSymbol(info) ==
    [tier |-> "Dladdr", addr |-> info.dli_saddr, name |-> info.dli_sname]

\* DladdrFallback::call: sets `called`, then runs the callback.
CbCall(act, sym) ==
    [act EXCEPT !.called = TRUE, !.out = Append(@, sym), !.pc = "cb"]

\* resolve(what, cb) starts: `let addr = what.address_or_ip()` and a fresh
\* DladdrFallback { cb, addr, called: false }.
ResolveBegin(t, a) ==
    /\ stack[t] # << >>
    /\ Top(t).op = "resolve" /\ Top(t).pc = "body"
    /\ stack' = SetTop(t, [Top(t) EXCEPT !.addr = a, !.pc = "frames0"])
    /\ UNCHANGED <<lockVars, cacheVars, histVars, envVars>>

\* Cache::with_global, `MAPPINGS_CACHE.get_or_insert_with(..)`: the test
\* whether the global Option<Cache> is Some.
WithGlobal(t) ==
    /\ stack[t] # << >>
    /\ \/ Top(t).op = "resolve" /\ Top(t).pc = "frames0"
       \/ Top(t).op = "clear_symbol_cache" /\ Top(t).pc = "body"
    /\ stack' = SetTop(t, [Top(t) EXCEPT !.pc =
                              IF MAPPINGS_CACHE THEN "incache" ELSE "construct"])
    /\ UNCHANGED <<lockVars, cacheVars, histVars, envVars>>

\* `|| Cache::new()` and the store into MAPPINGS_CACHE: a fresh Cache with
\* the libraries enumerated now takes the place of whatever the static held.
CacheConstruct(t) ==
    /\ stack[t] # << >>
    /\ Top(t).pc = "construct"
    /\ MAPPINGS_CACHE' = TRUE
    /\ libraries' = CacheNew.libraries
    /\ mappings' = CacheNew.mappings
    /\ refs' = << >>
    /\ stack' = SetTop(t, [Top(t) EXCEPT !.pc = "incache"])
    /\ UNCHANGED <<lockVars, histVars, envVars>>

\* The closure resolve passes to with_global, up to find_frames: the
\* address is translated and the mapping fetched or built.
ResolveEnter(t) ==
    /\ stack[t] # << >>
    /\ Top(t).op = "resolve" /\ Top(t).pc = "incache"
    /\ LET act == [Top(t) EXCEPT !.before = mappings]
           pair == avma_to_svma(libraries, act.addr)
       IN IF pair = None
          THEN /\ stack' = SetTop(t, [act EXCEPT !.pc = "drop"])
               /\ UNCHANGED <<mappings, refs>>
          ELSE LET m == mapping_for_lib(mappings, libraries, pair.lib)
                   got == [act EXCEPT !.lib = pair.lib, !.svma = pair.svma]
               IN /\ mappings' = m.mappings
                  /\ IF m.cx = None
                     THEN /\ stack' = SetTop(t, [got EXCEPT !.pc = "drop"])
                          /\ refs' = refs
                     ELSE /\ stack' = SetTop(t,
                                [got EXCEPT !.pc = "frames",
                                            !.cx = m.cx,
                                            !.pend = find_frames(m.cx, pair.svma)])
                          /\ refs' = Touch(refs, pair.lib)
    /\ UNCHANGED <<lockVars, MAPPINGS_CACHE, libraries, histVars, envVars>>

\* One turn of `while let Ok(Some(frame)) = frames.next()`: cb.call(Frame).
ResolveFrame(t) ==
    /\ stack[t] # << >>
    /\ Top(t).op = "resolve" /\ Top(t).pc = "frames"
    /\ Top(t).pend # << >>
    /\ LET act == [Top(t) EXCEPT !.before = << >>]
       IN stack' = SetTop(t, CbCall([act EXCEPT !.pend = Tail(@)],
                                    FrameSymbol(act.svma, Head(act.pend))))
    /\ UNCHANGED <<lockVars, cacheVars, histVars, envVars>>

\* Mutant of SymtabTierRuns: the symbol table is searched after frames too.
SymtabTierAlways(act) == TRUE

\* Whether the symbol-table tier runs: `if !cb.called`.
SymtabTierRuns(act) == ~act.called

\* After the frame loop: the symbol-table tier, then with_global returns.
ResolveSymtab(t) ==
    /\ stack[t] # << >>
    /\ Top(t).op = "resolve" /\ Top(t).pc = "frames"
    /\ Top(t).pend = << >>
    /\ LET act == [Top(t) EXCEPT !.before = << >>]
           found == IF SymtabTierRuns(act)
                    THEN search_symtab(act.cx.object, act.svma)
                    ELSE None
       IN IF found # None
          THEN stack' = SetTop(t, CbCall(act, SymtabSymbol(act.svma, found.name)))
          ELSE stack' = SetTop(t, [act EXCEPT !.pc = "drop"])
    /\ UNCHANGED <<lockVars, cacheVars, histVars, envVars>>

\* Whether Drop for DladdrFallback queries the loader: `if self.called return`.
DladdrTierRuns(act) == ~act.called

\* Mutant of DladdrAddr: the translated, file-relative address is passed.
DladdrAddrTranslated(act) == act.svma

\* The address Drop for DladdrFallback passes to dladdr::resolve: self.addr.
DladdrAddr(act) == act.addr

\* drop(cb): Drop for DladdrFallback and dladdr::resolve.
ResolveDrop(t) ==
    /\ stack[t] # << >>
    /\ Top(t).op = "resolve" /\ Top(t).pc = "drop"
    /\ LET act == [Top(t) EXCEPT !.before = << >>] IN
       IF DladdrTierRuns(act)
       THEN LET q == [act EXCEPT !.dl = Append(@, DladdrAddr(act))]
                info == dladdr(DladdrAddr(act))
            IN IF info # None
               THEN stack' = SetTop(t, [q EXCEPT !.out = Append(@, DladdrSymbol(info)),
                                                 !.pc = "cb"])
               ELSE stack' = SetTop(t, [q EXCEPT !.pc = "ret"])
       ELSE stack' = SetTop(t, [act EXCEPT !.pc = "ret"])
    /\ UNCHANGED <<lockVars, cacheVars, histVars, envVars>>

\* The callback of resolve returns to where it was called from: the frame
\* loop, the end of the with_global closure, or the end of drop.
ResolveCallbackReturn(t) ==
    /\ stack[t] # << >>
    /\ Top(t).op = "resolve" /\ Top(t).pc = "cb"
    /\ LET act == Top(t)
           tier == act.out[Len(act.out)].tier
       IN stack' = SetTop(t, [act EXCEPT !.pc =
              CASE tier = "Frame" -> "frames"
                [] tier = "Symtab" -> "drop"
                [] OTHER -> "ret"])
    /\ UNCHANGED <<lockVars, cacheVars, histVars, envVars>>

\* Mutant of VecClear: the most recently used entry survives.
VecClearKeepsFront(ms) == IF ms = << >> THEN ms ELSE <<ms[1]>>

\* Vec::clear.
VecClear(ms) == << >>

\* clear_symbol_cache: the closure `|cache| cache.mappings.clear()`.
ClearBody(t) ==
    /\ stack[t] # << >>
    /\ Top(t).op = "clear_symbol_cache" /\ Top(t).pc = "incache"
    /\ mappings' = VecClear(mappings)
    /\ refs' = << >>
    /\ probeRes' = Unset
    /\ stack' = SetTop(t, [Top(t) EXCEPT !.pc = "ret", !.before = mappings])
    /\ UNCHANGED <<lockVars, MAPPINGS_CACHE, libraries, probe, probeFirst,
                   envVars>>

----------------------------------------------------------------------------
(* Specifications *)

Modes == {"Short", "Full"}

\* A step of thread t inside an entry point.
Step(t) ==
    \/ LockCheck(t)
    \/ LockAcquire(t)
    \/ Return(t)
    \/ \E ok \in BOOLEAN : TraceInit(t, ok)
    \/ TraceFrame(t)
    \/ \E b \in BOOLEAN : TraceCallbackReturn(t, b)
    \/ TraceEnd(t)
    \/ \E mode \in Modes : \E n \in 0..MaxFrames : \E e \in 0..n :
          FormatBegin(t, mode, n, e)
    \/ FormatFrame(t)
    \/ FormatEnd(t)
    \/ \E a \in ConcAddrs : ResolveBegin(t, a)
    \/ ResolveEnter(t)
    \/ ResolveFrame(t)
    \/ ResolveSymtab(t)
    \/ ResolveDrop(t)
    \/ ResolveCallbackReturn(t)
    \/ ClearBody(t)
    \/ WithGlobal(t)
    \/ CacheConstruct(t)

\* Threads calling the public entry points, from idle and from inside their
\* callbacks; no callback panics.
Next ==
    \E t \in Threads :
        \/ CallTrace(t)
        \/ CallFormatTrace(t)
        \/ CallResolve(t)
        \/ CallClear(t)
        \/ Step(t)

Spec == Init /\ [][Next]_vars

\* Threads calling the public entry points from idle, with callbacks that may
\* panic; the panic is caught at the top of the thread, which goes on.
PanicNext ==
    \E t \in Threads :
        \/ stack[t] = << >> /\ CallTrace(t)
        \/ stack[t] = << >> /\ CallFormatTrace(t)
        \/ stack[t] = << >> /\ CallResolve(t)
        \/ stack[t] = << >> /\ CallClear(t)
        \/ Step(t)
        \/ CallbackPanic(t)

PanicSpec == Init /\ [][PanicNext]_vars

\* Nested calls and panics together.
FullNext == Next \/ \E t \in Threads : CallbackPanic(t)

FullSpec == Init /\ [][FullNext]_vars

\* One caller issuing resolve and clear_symbol_cache one after another, with
\* callbacks that only record their symbols.
SeqInit ==
    /\ Init!1 /\ Init!2 /\ Init!3 /\ Init!4 /\ Init!5
    /\ Init!6 /\ Init!7 /\ Init!8 /\ Init!9
    /\ probe \in ProbeAddrs
    /\ Init!11 /\ Init!12 /\ Init!13 /\ Init!14 /\ Init!15 /\ Init!16

SeqNext ==
    \/ stack[1] = << >> /\ CallResolve(1)
    \/ stack[1] = << >> /\ CallClear(1)
    \/ LockCheck(1)
    \/ LockAcquire(1)
    \/ Return(1)
    \/ \E a \in SeqAddrs : ResolveBegin(1, a)
    \/ WithGlobal(1)
    \/ CacheConstruct(1)
    \/ ResolveEnter(1)
    \/ ResolveFrame(1)
    \/ ResolveSymtab(1)
    \/ ResolveDrop(1)
    \/ ResolveCallbackReturn(1)
    \/ ClearBody(1)

SeqSpec == SeqInit /\ [][SeqNext]_vars

----------------------------------------------------------------------------
(* dbghelp::init and Drop for Init (src/dbghelp.rs) *)

\* pc of a thread in init: "idle" (outside), "load" (about to read LOCK),
\* "create" (about to CreateMutexA), "cas" (about to compare_exchange),
\* "wait" (in WaitForSingleObjectEx), "open" (owns the mutex, about to
\* ensure_open), "setup" (about to test INITIALIZED and return Ok).

\* A thread calls init(), from outside or while it holds Init values.
InitCall(t) ==
    /\ inits[t].pc = "idle"
    /\ inits[t].held < MaxInits
    /\ inits' = [inits EXCEPT ![t].pc = "load"]
    /\ UNCHANGED <<lockVars, cacheVars, histVars, stack, loaded, dbghelp, inputVars>>

\* `let mut lock = LOCK.load(SeqCst); if lock.is_null() { .. }`
InitLoad(t) ==
    /\ inits[t].pc = "load"
    /\ inits' = [inits EXCEPT ![t].pc = IF dbghelp.LOCK # 0 THEN "wait" ELSE "create",
                               ![t].lock = dbghelp.LOCK]
    /\ UNCHANGED <<lockVars, cacheVars, histVars, stack, loaded, dbghelp, inputVars>>

\* CreateMutexA(.., name): a handle to the mutex of that name, which is
\* created if it does not exist; null makes init return Err(()).
\* The handle is named after the thread that created it.
InitCreate(t, ok) ==
    /\ inits[t].pc = "create"
    /\ IF ok
       THEN /\ inits' = [inits EXCEPT ![t].pc = "cas", ![t].lock = t]
            /\ dbghelp' = [dbghelp EXCEPT !.created = @ \cup {t}]
       ELSE /\ inits' = [inits EXCEPT ![t].pc = "idle"]
            /\ dbghelp' = dbghelp
    /\ UNCHANGED <<lockVars, cacheVars, histVars, stack, loaded, inputVars>>

\* Mutant of compare_exchange: a plain store.
compare_exchangeStores(current, new) == [ok |-> TRUE, value |-> new]

\* AtomicPtr::compare_exchange(null, new): Ok and the new value stored, or
\* Err(other) and the value left as it is.
compare_exchange(current, new) ==
    IF current = 0
    THEN [ok |-> TRUE, value |-> new]
    ELSE [ok |-> FALSE, value |-> current]

\* LOCK.compare_exchange(null, lock): the handle is stored, or the one
\* another thread stored is taken and this one closed; both name one mutex.
InitCas(t) ==
    /\ inits[t].pc = "cas"
    /\ LET r == compare_exchange(dbghelp.LOCK, inits[t].lock) IN
       IF r.ok
       THEN /\ dbghelp' = [dbghelp EXCEPT !.LOCK = r.value]
            /\ inits' = [inits EXCEPT ![t].pc = "wait"]
       ELSE /\ dbghelp' = [dbghelp EXCEPT !.closed = @ \cup {inits[t].lock}]
            /\ inits' = [inits EXCEPT ![t].pc = "wait", ![t].lock = r.value]
    /\ UNCHANGED <<lockVars, cacheVars, histVars, stack, loaded, inputVars>>

\* A Windows mutex can be taken by a thread when it is free or that thread
\* owns it already.
MutexAvailable(d, t) == d.owner \in {0, t}

\* WaitForSingleObjectEx(lock, INFINITE, FALSE), then `Init { lock }`.
InitWait(t) ==
    /\ inits[t].pc = "wait"
    /\ MutexAvailable(dbghelp, t)
    /\ dbghelp' = [dbghelp EXCEPT !.owner = t, !.count = @ + 1]
    /\ inits' = [inits EXCEPT ![t].pc = "open"]
    /\ UNCHANGED <<lockVars, cacheVars, histVars, stack, loaded, inputVars>>

\* Mutant of InitDropped: the mutex is not released.
InitDroppedKeeps(d) == d

\* Drop for Init: ReleaseMutex(self.lock).
InitDropped(d) ==
    [d EXCEPT !.count = @ - 1, !.owner = IF d.count = 1 THEN 0 ELSE @]

\* Mutant of EnsureOpenFailed: the error return keeps the mutex.
EnsureOpenFailedKeeps(d) == d

\* The `?` of `DBGHELP.ensure_open()?` on Err: init returns and its local
\* `ret`, the Init made after the wait, is dropped.
EnsureOpenFailed(d) == InitDropped(d)

\* DBGHELP.ensure_open()?: Ok at once when the dll is loaded, else
\* LoadLibraryA, whose failure returns Err(()) and drops the Init.
InitOpen(t, ok) ==
    /\ inits[t].pc = "open"
    /\ IF dbghelp.opened \/ ok
       THEN /\ dbghelp' = [dbghelp EXCEPT !.opened = TRUE]
            /\ inits' = [inits EXCEPT ![t].pc = "setup"]
       ELSE /\ dbghelp' = EnsureOpenFailed(dbghelp)
            /\ inits' = [inits EXCEPT ![t].pc = "idle", ![t].lock = 0]
    /\ UNCHANGED <<lockVars, cacheVars, histVars, stack, loaded, inputVars>>

\* `if !INITIALIZED { set_optional_options(..); INITIALIZED = true }` and
\* `Ok(ret)`: the caller holds one more Init.
InitSetup(t) ==
    /\ inits[t].pc = "setup"
    /\ dbghelp' = [dbghelp EXCEPT !.INITIALIZED = TRUE]
    /\ inits' = [inits EXCEPT ![t].pc = "idle", ![t].held = @ + 1,
                               ![t].lock = 0]
    /\ UNCHANGED <<lockVars, cacheVars, histVars, stack, loaded, inputVars>>

\* The caller drops an Init it holds.
InitDrop(t) ==
    /\ inits[t].pc = "idle"
    /\ inits[t].held > 0
    /\ dbghelp' = InitDropped(dbghelp)
    /\ inits' = [inits EXCEPT ![t].held = @ - 1]
    /\ UNCHANGED <<lockVars, cacheVars, histVars, stack, loaded, inputVars>>

\* Threads of the process using dbghelp through init, each possibly
\* recursively.
DbghelpNext ==
    \E t \in Threads :
        \/ InitCall(t)
        \/ InitLoad(t)
        \/ \E ok \in BOOLEAN : InitCreate(t, ok)
        \/ InitCas(t)
        \/ InitWait(t)
        \/ \E ok \in BOOLEAN : InitOpen(t, ok)
        \/ InitSetup(t)
        \/ InitDrop(t)

DbghelpSpec == Init /\ [][DbghelpNext]_vars

----------------------------------------------------------------------------
(* The dbghelp backends under the entry points (Windows) *)

\* pub unsafe fn trace_unsynchronized(cb): the walker without lock().
CallTraceUnsynchronized(t) ==
    /\ InUserCode(t)
    /\ stack' = Push(t, [NewAct("trace", TRUE, "body")
                            EXCEPT !.mode = "unsynchronized"])
    /\ UNCHANGED <<lockVars, cacheVars, histVars, envVars>>

\* The number of Init values the activations of thread t hold.
InitsOwned(t) == Cardinality({k \in 1..Len(stack[t]) : stack[t][k].init})

\* `let dbghelp = match dbghelp::init() { .. }` at the head of the walker
\* and of the symbolizer's resolve: init is called.
BackendInit(t) ==
    /\ stack[t] # << >>
    /\ Top(t).op \in {"trace", "resolve"} /\ Top(t).pc = "body"
    /\ inits[t].pc = "idle"
    /\ inits[t].held < MaxInits
    /\ inits' = [inits EXCEPT ![t].pc = "load"]
    /\ stack' = SetTop(t, [Top(t) EXCEPT !.pc = "init"])
    /\ UNCHANGED <<lockVars, cacheVars, histVars, loaded, dbghelp, inputVars>>

\* init has returned: `Ok(dbghelp) => dbghelp` keeps the Init until the
\* function returns, `Err(()) => return`.
BackendInitDone(t) ==
    /\ stack[t] # << >>
    /\ Top(t).pc = "init"
    /\ inits[t].pc = "idle"
    /\ stack' = SetTop(t,
          IF inits[t].held > InitsOwned(t)
          THEN [Top(t) EXCEPT !.init = TRUE,
                              !.pc = IF Top(t).op = "trace" THEN "walk" ELSE "sym"]
          ELSE [Top(t) EXCEPT !.pc = "ret", !.stop = "initfail"])
    /\ UNCHANGED <<lockVars, cacheVars, histVars, envVars>>

\* resolve of the dbghelp symbolizer: do_resolve calls cb with the symbol
\* SymFromAddrW found, or not at all.
DbghelpResolve(t, found) ==
    /\ stack[t] # << >>
    /\ Top(t).op = "resolve" /\ Top(t).pc = "sym"
    /\ stack' = SetTop(t,
          IF found
          THEN CbCall(Top(t), [tier |-> "Dbghelp", addr |-> Top(t).addr,
                               name |-> "sym"])
          ELSE [Top(t) EXCEPT !.pc = "ret"])
    /\ UNCHANGED <<lockVars, cacheVars, histVars, envVars>>

\* The function returns: its `dbghelp` goes out of scope, Drop for Init.
BackendDropInit(t) ==
    /\ stack[t] # << >>
    /\ Top(t).pc = "ret" /\ Top(t).init
    /\ dbghelp' = InitDropped(dbghelp)
    /\ inits' = [inits EXCEPT ![t].held = @ - 1]
    /\ stack' = SetTop(t, [Top(t) EXCEPT !.init = FALSE])
    /\ UNCHANGED <<lockVars, cacheVars, histVars, loaded, inputVars>>

\* Threads calling trace, trace_unsynchronized and resolve over the dbghelp
\* backends, from idle and from inside their callbacks.
LayersNext ==
    \E t \in Threads :
        \/ CallTrace(t)
        \/ CallTraceUnsynchronized(t)
        \/ CallResolve(t)
        \/ LockCheck(t)
        \/ LockAcquire(t)
        \/ BackendInit(t)
        \/ InitLoad(t)
        \/ \E ok \in BOOLEAN : InitCreate(t, ok)
        \/ InitCas(t)
        \/ InitWait(t)
        \/ \E ok \in BOOLEAN : InitOpen(t, ok)
        \/ InitSetup(t)
        \/ BackendInitDone(t)
        \/ TraceFrame(t)
        \/ \E b \in BOOLEAN : TraceCallbackReturn(t, b)
        \/ TraceEnd(t)
        \/ \E found \in BOOLEAN : DbghelpResolve(t, found)
        \/ ResolveCallbackReturn(t)
        \/ BackendDropInit(t)
        \/ stack[t] # << >> /\ ~Top(t).init /\ Return(t)

LayersSpec == Init /\ [][LayersNext]_vars

----------------------------------------------------------------------------
(* Loading and unloading images *)

\* The images the program loads and unloads while it runs.
Reloadable == {2}

\* Addresses resolved while images come and go.
ReloadAddrs == {Bias(1) + 1, Bias(2) + 1}

\* dlopen of image i.
Dlopen(i) ==
    /\ i \notin loaded
    /\ loaded' = loaded \cup {i}
    /\ UNCHANGED <<lockVars, cacheVars, histVars, stack, dbghelp, inits, inputVars>>

\* dlclose of image i.
Dlclose(i) ==
    /\ i \in loaded
    /\ loaded' = loaded \ {i}
    /\ UNCHANGED <<lockVars, cacheVars, histVars, stack, dbghelp, inits, inputVars>>

\* One caller that resolves, clears the cache, and loads and unloads an
\* image between its calls.
ReloadNext ==
    \/ stack[1] = << >> /\ CallResolve(1)
    \/ stack[1] = << >> /\ CallClear(1)
    \/ \E i \in Reloadable : stack[1] = << >> /\ Dlopen(i)
    \/ \E i \in Reloadable : stack[1] = << >> /\ Dlclose(i)
    \/ LockCheck(1)
    \/ LockAcquire(1)
    \/ Return(1)
    \/ \E a \in ReloadAddrs : ResolveBegin(1, a)
    \/ WithGlobal(1)
    \/ CacheConstruct(1)
    \/ ResolveEnter(1)
    \/ ResolveFrame(1)
    \/ ResolveSymtab(1)
    \/ ResolveDrop(1)
    \/ ResolveCallbackReturn(1)
    \/ ClearBody(1)

ReloadSpec == Init /\ [][ReloadNext]_vars

----------------------------------------------------------------------------
(* Object::parse and Object::search_symtab of the three object formats *)

\* usize/u64 addition without overflow checks.
WrapAdd(a, b) == (a + b) % Word

\* Mutant of SortByKey: the table is left in file order.
SortByKeyUnsorted(syms) == syms

\* The position at which x goes into the address-sorted sequence s.
SortedPos(s, x) ==
    Cardinality({i \in 1..Len(s) : s[i].address <= x.address})

InsertSorted(s, x) ==
    LET k == SortedPos(s, x)
    IN SubSeq(s, 1, k) \o <<x>> \o SubSeq(s, k + 1, Len(s))

\* sort_unstable_by_key(|s| s.address).
RECURSIVE SortByKey(_)
SortByKey(syms) ==
    IF syms = << >> THEN << >>
    ELSE InsertSorted(SortByKey(SubSeq(syms, 1, Len(syms) - 1)),
                      syms[Len(syms)])

\* The symbol records of the files examined, per format.  A record's name is
\* its position in the file's table.
ElfSymbols ==
    { r \in [st_type : {"FUNC", "OBJECT", "NOTYPE"}, st_shndx : {0, 1},
             st_value : {1, 4, Word - 1}, st_size : {0, 2}] :
        r.st_shndx = 0 => r.st_type = "FUNC" }

MachOSymbols == [named : BOOLEAN, undefined : BOOLEAN, n_value : {1, 4, 6}]

\* section_number 0 is the undefined section, 1 the only section of the
\* file, 2 names no section; nameok tells whether the record's name can be
\* read from the string table; aux is number_of_aux_symbols.
PeSymbols ==
    { r \in [dtype : {"FUNCTION", "NULL"}, section_number : {0, 1, 2},
             value : {1, 4}, aux : {0, 1}, nameok : BOOLEAN] :
        /\ r.dtype = "NULL" => (r.section_number = 1 /\ r.aux = 0 /\ r.nameok)
        /\ r.section_number # 1 => (r.aux = 0 /\ r.nameok)
        /\ r.aux = 1 => r.nameok }

\* virtual_address of section 1 of a PE file.
PeSectionVa == 2

Tables(S) == UNION { [1..n -> S] : n \in 0..MaxSyms }

SymFiles ==
    { [format |-> "elf", symbols |-> t] : t \in Tables(ElfSymbols) }
    \cup { [format |-> "macho", symbols |-> t] : t \in Tables(MachOSymbols) }
    \cup { [format |-> "pe", symbols |-> t, image_base |-> b] :
              t \in Tables(PeSymbols), b \in {0, Word - 4} }

\* The positions at which keep is TRUE, in order.
Kept(keep) ==
    SelectSeq([i \in 1..Len(keep) |-> i], LAMBDA i : keep[i])

\* Object::parse (ELF): FUNC and OBJECT symbols outside SHN_UNDEF, as
\* ParsedSym { address, size, name }, sorted by address.
ElfParse(file) ==
    LET Keep(sym) ==
            /\ sym.st_type \in {"FUNC", "OBJECT"}
            /\ sym.st_shndx # 0
        idx == Kept([i \in 1..Len(file.symbols) |-> Keep(file.symbols[i])])
    IN [format |-> "elf",
        syms |-> SortByKey([k \in 1..Len(idx) |->
                    [address |-> file.symbols[idx[k]].st_value,
                     size |-> file.symbols[idx[k]].st_size,
                     name |-> idx[k]]])]

\* Object::parse (Mach-O), the LC_SYMTAB command: the symbols whose name is
\* not empty and that are not undefined, as (name, n_value), sorted.
MachOParse(file) ==
    LET Keep(nlist) == nlist.named /\ ~nlist.undefined
        idx == Kept([i \in 1..Len(file.symbols) |-> Keep(file.symbols[i])])
    IN [format |-> "macho",
        syms |-> SortByKey([k \in 1..Len(idx) |->
                    [address |-> file.symbols[idx[k]].n_value,
                     name |-> idx[k]]])]

\* Object::parse (PE), the `while i < len` loop from record i on: [ok, syms,
\* overflow]; ok is FALSE when sections.section(..) fails, overflow tells
\* that addr + va + image_base left the range of usize.
RECURSIVE PeCollect(_, _, _)
PeCollect(file, i, acc) ==
    IF i > Len(file.symbols) THEN acc
    ELSE LET sym == file.symbols[i]
             next == i + 1 + sym.aux
         IN IF sym.dtype # "FUNCTION" \/ sym.section_number = 0
            THEN PeCollect(file, next, acc)
            ELSE IF sym.section_number # 1
                 THEN [acc EXCEPT !.ok = FALSE]
                 ELSE PeCollect(file, next,
                        [acc EXCEPT
                           !.syms = Append(@,
                              [address |-> WrapAdd(WrapAdd(sym.value, PeSectionVa),
                                                   file.image_base),
                               name |-> i, nameok |-> sym.nameok]),
                           !.overflow =
                              @ \/ sym.value + PeSectionVa + file.image_base >= Word])

\* Object::parse (PE): None when a section lookup fails, a panic when the
\* build checks overflow and an address computation overflows, else the
\* collected symbols sorted by address.
PeParse(file, checked) ==
    LET r == PeCollect(file, 1, [ok |-> TRUE, syms |-> << >>, overflow |-> FALSE])
    IN IF checked /\ r.overflow THEN Panicked
       ELSE IF ~r.ok THEN None
       ELSE [format |-> "pe", syms |-> SortByKey(r.syms)]

\* Object::parse of the file's format.
FileParse(file, checked) ==
    CASE file.format = "elf" -> ElfParse(file)
      [] file.format = "macho" -> MachOParse(file)
      [] OTHER -> PeParse(file, checked)

\* Mutant of Candidate: the first entry at or below addr, not the closest.
CandidateFirst(syms, addr) ==
    IF syms # << >> /\ syms[1].address <= addr THEN syms[1] ELSE None

\* The entry of the table the binary search settles on: Ok(i) => i,
\* Err(i) => i.checked_sub(1)?, then syms.get(i)?.
Candidate(syms, addr) ==
    LET r == binary_search_by_key(syms, addr)
        i == IF r.ok THEN r.i ELSE r.i - 1
    IN IF i < 1 \/ i > Len(syms) THEN None ELSE syms[i]

\* Object::search_symtab (Mach-O): the closest symbol at or below addr.
search_symtab_macho(object, addr) ==
    LET sym == Candidate(object.syms, addr)
    IN IF sym = None THEN None ELSE [name |-> sym.name]

\* Object::search_symtab (PE): the closest symbol at or below addr, when
\* its name can be read: `self.symbols[i].1.name(self.strings).ok()`.
search_symtab_pe(object, addr) ==
    LET sym == Candidate(object.syms, addr)
    IN IF sym = None THEN None
       ELSE IF sym.nameok THEN [name |-> sym.name] ELSE None

\* `sym.address + sym.size` of search_symtab (ELF) leaves the range of u64.
ElfSearchOverflows(object, addr) ==
    LET sym == Candidate(object.syms, addr)
    IN sym # None /\ sym.address <= addr /\ sym.address + sym.size >= Word

\* Object::search_symtab of the object's format, in a build with or without
\* overflow checks.
ObjectSearch(object, addr, checked) ==
    CASE object.format = "elf" ->
            IF checked /\ ElfSearchOverflows(object, addr) THEN Panicked
            ELSE search_symtab(object, addr)
      [] object.format = "macho" -> search_symtab_macho(object, addr)
      [] OTHER -> search_symtab_pe(object, addr)

\* The addresses looked up in the object examined.
SymAddrs == 0..7 \cup {Word - 1}

\* An object file of one of the three formats is picked for examination.
SymInit ==
    /\ Init!1 /\ Init!2 /\ Init!3 /\ Init!4 /\ Init!5
    /\ Init!6 /\ Init!7 /\ Init!8 /\ Init!9 /\ Init!10
    /\ Init!11 /\ Init!12 /\ Init!13 /\ Init!14 /\ Init!15
    /\ IdleLibbt
    /\ IdleBows
    /\ symFile \in SymFiles
    /\ symObject = Unset
    /\ symFound = Unset
    /\ IdleMacho
    /\ IdleMaps
    /\ IdleCapture

\* Object::parse runs on the file, in a build with or without overflow
\* checks.
SymParse(checked) ==
    /\ symObject = Unset
    /\ symObject' = FileParse(symFile, checked)
    /\ UNCHANGED <<progVars, symFile, symFound, machoVars, mapsVars, captureVars, libbtVars, bowsVars>>

Parsed(object) == object \notin {Unset, None, Panicked}

----------------------------------------------------------------------------
(* Mapping::new on macOS *)

\* A Mach-O file as Mapping::new sees it: whether mmap succeeds (an empty
\* file cannot be mapped), whether Mach::parse succeeds, its LC_UUID (0
\* when it has none) and whether Object::parse and cx succeed on it.
MachOFiles ==
    { f \in [readable : BOOLEAN, parsable : BOOLEAN, uuid : 0..2,
             object : BOOLEAN] :
        /\ ~f.readable => ~f.parsable
        /\ ~f.parsable => (f.uuid = 0 /\ ~f.object)
        /\ (f.parsable /\ f.uuid # 1) => f.object }

\* The binary examined: its UUID, when it has one, is 1.
Binaries == {f \in MachOFiles : f.uuid # 2}

\* An entry of the binary's directory: another file, or a *.dSYM bundle
\* whose Contents/Resources/DWARF can be listed (dir) and holds `files`.
DirEntries ==
    {[dsym |-> FALSE, dir |-> FALSE, files |-> << >>],
     [dsym |-> TRUE, dir |-> FALSE, files |-> << >>]}
    \cup {[dsym |-> TRUE, dir |-> TRUE, files |-> fs] :
             fs \in UNION {[1..n -> MachOFiles] : n \in 0..MaxDsymFiles}}

\* fn load_dsym(dir, uuid), the loop from file k on: the position of the
\* file whose mapping is returned, 0 for None.
RECURSIVE load_dsym(_, _, _)
load_dsym(files, uuid, k) ==
    IF k > Len(files) THEN 0
    ELSE LET f == files[k] IN
         IF ~f.readable \/ ~f.parsable \/ f.uuid = 0 THEN 0
         ELSE IF f.uuid # uuid THEN load_dsym(files, uuid, k + 1)
         ELSE IF f.object THEN k
         ELSE load_dsym(files, uuid, k + 1)

\* The `for entry in parent.read_dir()` loop of Mapping::new from entry e
\* on, then the binary's own object.
RECURSIVE ProbeDsyms(_, _, _)
ProbeDsyms(binary, entries, e) ==
    IF e > Len(entries)
    THEN IF binary.object THEN [from |-> "binary"] ELSE None
    ELSE LET entry == entries[e]
             k == IF entry.dsym /\ entry.dir
                  THEN load_dsym(entry.files, binary.uuid, 1) ELSE 0
         IN IF k # 0 THEN [from |-> "dsym", entry |-> e, file |-> k]
            ELSE ProbeDsyms(binary, entries, e + 1)

\* Mapping::new (macOS): mmap(path)?, Mach::parse(..).ok()?,
\* macho.uuid(..).ok()??, the dSYM probe, the binary's own object.
MappingNewMacho(binary, entries) ==
    IF ~binary.readable \/ ~binary.parsable \/ binary.uuid = 0 THEN None
    ELSE ProbeDsyms(binary, entries, 1)

\* A binary and the entries of its directory are picked.
MachOInit ==
    /\ Init!1 /\ Init!2 /\ Init!3 /\ Init!4 /\ Init!5
    /\ Init!6 /\ Init!7 /\ Init!8 /\ Init!9 /\ Init!10
    /\ Init!11 /\ Init!12 /\ Init!13 /\ Init!14 /\ Init!15
    /\ IdleLibbt
    /\ IdleBows
    /\ IdleSym
    /\ IdleMaps
    /\ IdleCapture
    /\ macho \in [format : {"macho"}, binary : Binaries,
                   entries : UNION {[1..n -> DirEntries] : n \in 0..MaxEntries},
                   mapping : {Unset}]

\* Mapping::new runs on the binary's path.
MachOMappingNew ==
    /\ macho.mapping = Unset
    /\ macho' = [macho EXCEPT !.mapping = MappingNewMacho(macho.binary, macho.entries)]
    /\ UNCHANGED <<progVars, symVars, mapsVars, captureVars, libbtVars, bowsVars>>

MachOSpec == MachOInit /\ [][MachOMappingNew]_vars

\* search_symtab(a) runs on the parsed object.
SymSearch(a, checked) ==
    /\ Parsed(symObject)
    /\ symFound' = [addr |-> a, res |-> ObjectSearch(symObject, a, checked)]
    /\ UNCHANGED <<progVars, symFile, symObject, machoVars, mapsVars, captureVars, libbtVars, bowsVars>>

SymNext ==
    \/ \E checked \in BOOLEAN : SymParse(checked)
    \/ \E a \in SymAddrs, checked \in BOOLEAN : SymSearch(a, checked)

SymSpec == SymInit /\ [][SymNext]_vars

----------------------------------------------------------------------------
(* resolve of the libbacktrace backend (src/symbolize/libbacktrace.rs) *)

\* What backtrace_pcinfo hands to its callback, once per call: whether
\* filename and function are non-null.  One call per inlined frame of the
\* pc, the enclosing function last.
PcinfoReports == [filename : BOOLEAN, function : BOOLEAN]

\* What the library is going to do in a resolve call: whether
\* backtrace_create_state gave a state, the reports of backtrace_pcinfo
\* in order, and whether backtrace_syminfo calls its callback or only
\* error_cb.
LibbtInputs ==
    [state : BOOLEAN,
     reports : UNION { [1..n -> PcinfoReports] : n \in 0..MaxReports },
     syminfo : BOOLEAN]

LibbtInit ==
    /\ Init!1 /\ Init!2 /\ Init!3 /\ Init!4 /\ Init!5
    /\ Init!6 /\ Init!7 /\ Init!8 /\ Init!9 /\ Init!10
    /\ Init!11 /\ Init!12 /\ Init!13 /\ Init!14 /\ Init!15
    /\ IdleBows
    /\ IdleSym
    /\ IdleMacho
    /\ IdleMaps
    /\ IdleCapture
    /\ \E in \in LibbtInputs :
          libbt = [format |-> "libbt", in |-> in, pc |-> "resolve", i |-> 0,
                   ret |-> 0, out |-> << >>]

\* `let state = init_state(); if state.is_null() { return; }`
LibbtResolve ==
    /\ libbt.pc = "resolve"
    /\ libbt' = [libbt EXCEPT !.pc = IF libbt.in.state THEN "pcinfo" ELSE "done"]
    /\ UNCHANGED <<progVars, symVars, machoVars, mapsVars, captureVars, bowsVars>>

\* pcinfo_cb: -1 without a call of cb when filename or function is null,
\* else cb is called with a Symbol::Pcinfo and 0 returned.
pcinfo_cb(report) ==
    IF ~report.filename \/ ~report.function
    THEN [rc |-> 0 - 1, delivered |-> FALSE]
    ELSE [rc |-> 0, delivered |-> TRUE]

\* backtrace_pcinfo calls pcinfo_cb with its next report; a non-zero
\* return ends the pass and is the value backtrace_pcinfo returns.
LibbtPcinfoReport ==
    /\ libbt.pc = "pcinfo"
    /\ libbt.i < Len(libbt.in.reports)
    /\ LET r == pcinfo_cb(libbt.in.reports[libbt.i + 1]) IN
       libbt' = [libbt EXCEPT
                   !.i = @ + 1,
                   !.out = IF r.delivered THEN Append(@, "Pcinfo") ELSE @,
                   !.ret = r.rc,
                   !.pc = IF r.rc # 0 THEN "after" ELSE "pcinfo"]
    /\ UNCHANGED <<progVars, symVars, machoVars, mapsVars, captureVars, bowsVars>>

\* backtrace_pcinfo has no further report and returns 0.
LibbtPcinfoEnd ==
    /\ libbt.pc = "pcinfo"
    /\ libbt.i = Len(libbt.in.reports)
    /\ libbt' = [libbt EXCEPT !.ret = 0, !.pc = "after"]
    /\ UNCHANGED <<progVars, symVars, machoVars, mapsVars, captureVars, bowsVars>>

\* `if ret != 0 { bt::backtrace_syminfo(.., syminfo_cb, ..) }`: syminfo_cb
\* calls cb with a Symbol::Syminfo.
LibbtSyminfo ==
    /\ libbt.pc = "after"
    /\ libbt' = [libbt EXCEPT
                   !.out = IF libbt.ret # 0 /\ libbt.in.syminfo
                           THEN Append(@, "Syminfo") ELSE @,
                   !.pc = "done"]
    /\ UNCHANGED <<progVars, symVars, machoVars, mapsVars, captureVars, bowsVars>>

LibbtNext ==
    \/ LibbtResolve
    \/ LibbtPcinfoReport
    \/ LibbtPcinfoEnd
    \/ LibbtSyminfo

LibbtSpec == LibbtInit /\ [][LibbtNext]_vars

----------------------------------------------------------------------------
(* BytesOrWideString::into_path_buf (src/types.rs) *)

\* Bytes: 'a', the two bytes of U+00E9 and a byte no UTF-8 text holds.
\* Wide: 'a' and the two halves of a surrogate pair.
ByteUnits == {97, 195, 169, 255}
WideUnits == {97, 55357, 56832}

BytesOrWideStrings ==
    { [kind |-> "Bytes", units |-> u] :
         u \in UNION { [1..n -> ByteUnits] : n \in 0..MaxUnits } }
    \cup { [kind |-> "Wide", units |-> u] :
         u \in UNION { [1..n -> WideUnits] : n \in 0..MaxUnits - 1 } }

\* The cfg of the build: unix, windows, or neither.
Platforms == {"unix", "windows", "other"}

\* str::from_utf8(b).is_ok()
RECURSIVE from_utf8(_)
from_utf8(b) ==
    IF b = << >> THEN TRUE
    ELSE IF b[1] = 97 THEN from_utf8(Tail(b))
    ELSE IF Len(b) >= 2 /\ b[1] = 195 /\ b[2] = 169
         THEN from_utf8(SubSeq(b, 3, Len(b)))
    ELSE FALSE

\* into_path_buf in a build for the platform: the PathBuf, as the units it
\* was made from, or the panic of unreachable!().
into_path_buf(platform, value) ==
    IF platform = "unix" /\ value.kind = "Bytes"
    THEN [from |-> "OsStr::from_bytes", units |-> value.units]
    ELSE IF platform = "windows" /\ value.kind = "Wide"
    THEN [from |-> "OsString::from_wide", units |-> value.units]
    ELSE IF value.kind = "Bytes" /\ from_utf8(value.units)
    THEN [from |-> "str", units |-> value.units]
    ELSE Panicked

BowsInit ==
    /\ Init!1 /\ Init!2 /\ Init!3 /\ Init!4 /\ Init!5
    /\ Init!6 /\ Init!7 /\ Init!8 /\ Init!9 /\ Init!10
    /\ Init!11 /\ Init!12 /\ Init!13 /\ Init!14 /\ Init!15
    /\ IdleLibbt
    /\ IdleSym
    /\ IdleMacho
    /\ IdleMaps
    /\ IdleCapture
    /\ \E p \in Platforms, v \in BytesOrWideStrings :
          bows = [format |-> "bows", platform |-> p, value |-> v, out |-> Unset]

\* value.into_path_buf()
BowsIntoPathBuf ==
    /\ bows.out = Unset
    /\ bows' = [bows EXCEPT !.out = into_path_buf(bows.platform, bows.value)]
    /\ UNCHANGED <<progVars, symVars, machoVars, mapsVars, captureVars, libbtVars>>

BowsSpec == BowsInit /\ [][BowsIntoPathBuf]_vars

\* Strings are sequences of one-character strings.
HexDigits ==
    <<"0", "1", "2", "3", "4", "5", "6", "7",
      "8", "9", "a", "b", "c", "d", "e", "f">>

\* The kernel's %x of n, and its zero padding to width w.
RECURSIVE ToHex(_)
ToHex(n) ==
    IF n < 16 THEN <<HexDigits[n + 1]>>
    ELSE ToHex(n \div 16) \o <<HexDigits[(n % 16) + 1]>>

RECURSIVE Pad(_, _)
Pad(str, w) == IF Len(str) >= w THEN str ELSE Pad(<<"0">> \o str, w)

Spaces(k) == [i \in 1..k |-> " "]

\* The fields the kernel writes a line of /proc/self/maps from; gap[i] is
\* the number of spaces after field i.
MapsFields ==
    [start : {1, 160}, limit : {2, 255},
     perms : {<<"r", "-", "x", "p">>, <<"r", "w", "-", "s">>},
     offset : {0, 57}, major : {0, 259}, minor : {6},
     inode : {0, 18},
     pathname : {<< >>, <<"[", "v", "]">>, <<"/", "l", ".", "s", "o">>,
                 <<"/", "m", "y", " ", "l">>},
     gap : [1..5 -> 1..MaxGap]]

\* 'start-limit perms offset major:minor inode [pathname]'.
MapsLine(f) ==
    Pad(ToHex(f.start), 2) \o <<"-">> \o Pad(ToHex(f.limit), 2)
    \o Spaces(f.gap[1]) \o f.perms
    \o Spaces(f.gap[2]) \o Pad(ToHex(f.offset), 4)
    \o Spaces(f.gap[3]) \o Pad(ToHex(f.major), 2) \o <<":">> \o Pad(ToHex(f.minor), 2)
    \o Spaces(f.gap[4]) \o ToHex(f.inode)
    \o (IF f.pathname = << >> THEN << >> ELSE Spaces(f.gap[5]) \o f.pathname)

\* str::find(c): the 1-based position of the first c, 0 for None.
Find(str, c) ==
    IF \E i \in 1..Len(str) : str[i] = c
    THEN CHOOSE i \in 1..Len(str) : str[i] = c /\ \A j \in 1..(i - 1) : str[j] # c
    ELSE 0

\* str::split(c): the pieces between the occurrences of c, empty ones
\* included.
RECURSIVE Split(_, _)
Split(str, c) ==
    LET i == Find(str, c)
    IN IF i = 0 THEN <<str>>
       ELSE <<SubSeq(str, 1, i - 1)>> \o Split(SubSeq(str, i + 1, Len(str)), c)

\* s.split(' ').filter(|s| s.len() > 0)
Parts(str) == SelectSeq(Split(str, " "), LAMBDA p : Len(p) > 0)

Err(msg) == [ok |-> FALSE, err |-> msg]

RECURSIVE HexVal(_)
HexVal(str) ==
    IF str = << >> THEN 0
    ELSE 16 * HexVal(SubSeq(str, 1, Len(str) - 1))
         + (Find(HexDigits, str[Len(str)]) - 1)

\* usize::from_str_radix(s, 16): [ok, v].
hex(str) ==
    IF str = << >> \/ \E i \in 1..Len(str) : Find(HexDigits, str[i]) = 0
    THEN Err("Couldn't parse hex number")
    ELSE IF HexVal(str) >= Word THEN Err("Couldn't parse hex number")
    ELSE [ok |-> TRUE, v |-> HexVal(str)]

\* `if let Some(idx) = str.find(c)`, split_at(idx), split_at(1) and hex of
\* both sides: [ok, v] with v the pair.
HexPair(str, c, msg) ==
    LET idx == Find(str, c)
    IN IF idx = 0 THEN Err(msg)
       ELSE LET a == hex(SubSeq(str, 1, idx - 1))
                b == hex(SubSeq(str, idx + 1, Len(str)))
            IN IF ~a.ok THEN a
               ELSE IF ~b.ok THEN b
               ELSE [ok |-> TRUE, v |-> <<a.v, b.v>>]

\* MapsEntry::from_str.
from_str(str) ==
    LET parts == Parts(str) IN
    IF Len(parts) < 1 THEN Err("Couldn't find address")
    ELSE IF Len(parts) < 2 THEN Err("Couldn't find permissions")
    ELSE IF Len(parts) < 3 THEN Err("Couldn't find offset")
    ELSE IF Len(parts) < 4 THEN Err("Couldn't find dev")
    ELSE IF Len(parts) < 5 THEN Err("Couldn't find inode")
    ELSE
    LET pathname_str == IF Len(parts) < 6 THEN << >> ELSE parts[6]
        address == HexPair(parts[1], "-", "Couldn't parse address range")
        offset == hex(parts[3])
        dev == HexPair(parts[4], ":", "Couldn't parse dev")
        inode == hex(parts[5])
    IN IF ~address.ok THEN address
       ELSE IF Len(parts[2]) < 4 THEN Err("insufficient perms")
       ELSE IF Len(parts[2]) > 4 THEN Err("too many perms")
       ELSE IF ~offset.ok THEN offset
       ELSE IF ~dev.ok THEN dev
       ELSE IF ~inode.ok THEN inode
       ELSE [ok |-> TRUE, address |-> address.v, perms |-> parts[2],
             offset |-> offset.v, dev |-> dev.v, inode |-> inode.v,
             pathname |-> pathname_str]

\* A well-formed line is picked.
MapsInit ==
    /\ Init!1 /\ Init!2 /\ Init!3 /\ Init!4 /\ Init!5
    /\ Init!6 /\ Init!7 /\ Init!8 /\ Init!9 /\ Init!10
    /\ Init!11 /\ Init!12 /\ Init!13 /\ Init!14 /\ Init!15
    /\ IdleLibbt
    /\ IdleBows
    /\ IdleSym
    /\ IdleMacho
    /\ IdleCapture
    /\ \E f \in MapsFields :
          maps = [format |-> "maps", fields |-> f, line |-> MapsLine(f),
                  entry |-> Unset]

\* line.parse::<MapsEntry>() of parse_maps.
MapsParse ==
    /\ maps.entry = Unset
    /\ maps' = [maps EXCEPT !.entry = from_str(maps.line)]
    /\ UNCHANGED <<progVars, symVars, machoVars, captureVars, libbtVars, bowsVars>>

MapsSpec == MapsInit /\ [][MapsParse]_vars

\* The closure `hex` of the nto from_str:
\* usize::from_str_radix(&s[2..], 16); the slice panics on a string shorter
\* than two bytes.
hex_nto(str) ==
    IF Len(str) < 2 THEN Panicked ELSE hex(SubSeq(str, 3, Len(str)))

\* The first of the results that is not Ok, in evaluation order, or the
\* last result.
RECURSIVE FirstFailure(_)
FirstFailure(rs) ==
    IF Len(rs) = 1 \/ Head(rs) = Panicked \/ ~Head(rs).ok THEN Head(rs)
    ELSE FirstFailure(Tail(rs))

\* MapsEntry::from_str for target_os = "nto" (/proc/self/pmap), in a build
\* with or without overflow checks.
from_str_nto(str, checked) ==
    LET parts == Split(str, ",") IN
    IF Len(parts) < 2 THEN Err("Couldn't find size")
    ELSE IF Len(parts) < 3 THEN Err("Couldn't find flags")
    ELSE IF Len(parts) < 4 THEN Err("Couldn't find protection")
    ELSE IF Len(parts) < 5 THEN Err("Couldn't find maximum protection")
    ELSE IF Len(parts) < 6 THEN Err("Couldn't find device")
    ELSE IF Len(parts) < 7 THEN Err("Couldn't find inode")
    ELSE IF Len(parts) < 8 THEN Err("Couldn't find offset")
    ELSE IF Len(parts) < 9 THEN Err("Couldn't find reserved pages")
    ELSE IF Len(parts) < 10 THEN Err("Couldn't find guard size")
    ELSE IF Len(parts) < 11 THEN Err("Couldn't find reference count")
    ELSE IF Len(parts) < 12 THEN Err("Couldn't find mapped count")
    ELSE
    LET pathname_str == IF Len(parts) < 13 THEN << >> ELSE parts[13]
        vaddr == hex_nto(parts[1])
        size == hex_nto(parts[2])
        prot == hex_nto(parts[4])
        offset == hex_nto(parts[8])
        dev == hex_nto(parts[6])
        inode == hex_nto(parts[7])
        bad == FirstFailure(<<vaddr, size>>)
        rest == FirstFailure(<<prot, offset, dev, inode>>)
    IN IF bad = Panicked \/ ~bad.ok THEN bad
       ELSE IF vaddr.v + size.v >= Word /\ checked THEN Panicked
       ELSE IF rest = Panicked \/ ~rest.ok THEN rest
       ELSE [ok |-> TRUE,
             address |-> <<vaddr.v, (vaddr.v + size.v) % Word>>,
             perms |-> <<IF prot.v % 2 = 1 THEN "r" ELSE "-",
                         IF (prot.v \div 2) % 2 = 1 THEN "w" ELSE "-",
                         IF (prot.v \div 4) % 2 = 1 THEN "x" ELSE "-",
                         "-">>,
             offset |-> offset.v, dev |-> <<dev.v, 0>>, inode |-> inode.v,
             pathname |-> pathname_str]

\* The strings a field of a line may hold: empty, too short, a bare
\* prefix, with and without '0x', and the largest word.
FieldStrs ==
    {<< >>, <<"5">>, <<"0", "x">>, <<"0", "x", "1", "0">>, <<"1", "0">>,
     <<"0", "x", "3", "f", "f">>}

RECURSIVE Join(_, _)
Join(strs, c) ==
    IF strs = << >> THEN << >>
    ELSE IF Len(strs) = 1 THEN strs[1]
    ELSE strs[1] \o <<c>> \o Join(Tail(strs), c)

\* Lines of pmap shape: the first n of the 13 fields, three of them drawn
\* from FieldStrs.
PmapLines ==
    { Join(SubSeq(<<v, s, <<"0", "x", "7", "1">>, p, <<"0", "x", "0", "f">>,
                    <<"0", "x", "0", "b">>, <<"0", "x", "d", "d">>,
                    <<"0", "x", "0", "0">>, <<"0", "x", "0">>, <<"0", "x", "0">>,
                    <<"0", "x", "5">>, <<"0", "x", "3">>, <<"/", "c">>>>, 1, n),
           ",") :
        v \in FieldStrs, s \in FieldStrs, p \in FieldStrs, n \in 0..13 }

\* Lines of maps shape cut short after any number of characters.
MapsPrefixes ==
    LET line == MapsLine([start |-> 160, limit |-> 255,
                          perms |-> <<"r", "-", "x", "p">>, offset |-> 57,
                          major |-> 259, minor |-> 6, inode |-> 18,
                          pathname |-> <<"/", "l", ".", "s", "o">>,
                          gap |-> [i \in 1..5 |-> 1]])
    IN { SubSeq(line, 1, k) : k \in 0..Len(line) }

\* Any line is handed to the parser of either target.
RawInit ==
    /\ Init!1 /\ Init!2 /\ Init!3 /\ Init!4 /\ Init!5
    /\ Init!6 /\ Init!7 /\ Init!8 /\ Init!9 /\ Init!10
    /\ Init!11 /\ Init!12 /\ Init!13 /\ Init!14 /\ Init!15
    /\ IdleLibbt
    /\ IdleBows
    /\ IdleSym
    /\ IdleMacho
    /\ IdleCapture
    /\ \E target \in {"default", "nto"}, l \in PmapLines \cup MapsPrefixes :
          maps = [format |-> "raw", target |-> target, line |-> l,
                  entry |-> Unset]

\* line.parse::<MapsEntry>() of the target's parser.
RawParse(checked) ==
    /\ maps.entry = Unset
    /\ maps' = [maps EXCEPT !.entry =
                   IF maps.target = "nto" THEN from_str_nto(maps.line, checked)
                   ELSE from_str(maps.line)]
    /\ UNCHANGED <<progVars, symVars, machoVars, captureVars, libbtVars, bowsVars>>

RawNext == \E checked \in BOOLEAN : RawParse(checked)

RawMapsSpec == RawInit /\ [][RawNext]_vars

----------------------------------------------------------------------------
(* Backtrace (src/capture.rs) *)

\* The functions of the capture machinery, innermost first: the walker's
\* frame (where the context is captured), trace, and the constructor.
Machinery == <<"trace_unsynchronized", "trace", "constructor">>

\* The start address of a function: the machinery occupies 10, 20, 30, the
\* k-th caller of the constructor, caller1 being the function that called
\* it, 100 * k.
CallerNames == <<"caller1", "caller2", "caller3", "caller4">>

FnAddr(fn) ==
    CASE fn = "trace_unsynchronized" -> 10
      [] fn = "trace" -> 20
      [] fn = "constructor" -> 30
      [] OTHER -> 100 * Find(CallerNames, fn)

\* A frame as the walker yields it.
StackFrameOf(fn, off) ==
    [fn |-> fn, ip |-> FnAddr(fn) + off, symbol_address |-> FnAddr(fn)]

\* The frames the walker yields when called from the constructor, innermost
\* first: nothing (the noop backend, a failed init), or the frames of the
\* last m machinery functions (those the build did not inline into their
\* caller) followed by the k callers of the constructor.
WalkerStacks ==
    {<< >>} \cup
    { [i \in 1..m |-> StackFrameOf(Machinery[Len(Machinery) - m + i], 1)]
      \o [i \in 1..k |-> StackFrameOf(CallerNames[i], off[i])] :
        m \in 0..Len(Machinery), k \in 1..MaxCallers, off \in [1..MaxCallers -> {1, 2}] }

\* The symbols resolve delivers for an ip, copied as BacktraceSymbol.
BacktraceSymbols(ip) == <<[addr |-> ip - (ip % 10)]>>

\* BacktraceFrame { ip, symbol_address, symbols } of a walker frame.
BacktraceFrameOf(frame) ==
    [ip |-> frame.ip, symbol_address |-> frame.symbol_address,
     symbols |-> BacktraceSymbols(frame.ip)]

\* Backtrace::new: the callback pushes every frame it is handed, resolved,
\* and returns true.
BacktraceNew(stack_) ==
    [kind |-> "Resolved",
     frames |-> [i \in 1..Len(stack_) |-> BacktraceFrameOf(stack_[i])]]

\* Backtrace::new_unresolved: the callback pushes frame.clone() and returns
\* true.
BacktraceNewUnresolved(stack_) ==
    [kind |-> "Unresolved", unresolved_frames |-> stack_]

\* Backtrace::resolve(&self) -> Backtrace: a clone of a resolved value, else
\* a new Resolved value built from the unresolved frames.
BacktraceResolve(bt) ==
    IF bt.kind = "Resolved" THEN bt
    ELSE [kind |-> "Resolved",
          frames |-> [i \in 1..Len(bt.unresolved_frames) |->
                         BacktraceFrameOf(bt.unresolved_frames[i])]]

\* Backtrace::frames(&self): the frames, or the panic "cannot reference
\* frames of unresolved backtrace".
BacktraceFrames(bt) ==
    IF bt.kind = "Resolved" THEN bt.frames ELSE Panicked

\* A thread is about to capture a backtrace on some stack.
CaptureInit ==
    /\ Init!1 /\ Init!2 /\ Init!3 /\ Init!4 /\ Init!5
    /\ Init!6 /\ Init!7 /\ Init!8 /\ Init!9 /\ Init!10
    /\ Init!11 /\ Init!12 /\ Init!13 /\ Init!14 /\ Init!15
    /\ IdleLibbt
    /\ IdleBows
    /\ IdleSym
    /\ IdleMacho
    /\ IdleMaps
    /\ capture \in [format : {"capture"}, stack : WalkerStacks, ctor : {"none"},
                     bt : {Unset}, ret : {Unset}, out : {Unset}]

\* `let b = Backtrace::new();`
CallNew ==
    /\ capture.ctor = "none"
    /\ capture' = [capture EXCEPT !.ctor = "new", !.bt = BacktraceNew(capture.stack)]
    /\ UNCHANGED <<progVars, symVars, machoVars, mapsVars, libbtVars, bowsVars>>

\* `let mut b = Backtrace::new_unresolved();`
CallNewUnresolved ==
    /\ capture.ctor = "none"
    /\ capture' = [capture EXCEPT !.ctor = "new_unresolved",
                                  !.bt = BacktraceNewUnresolved(capture.stack)]
    /\ UNCHANGED <<progVars, symVars, machoVars, mapsVars, libbtVars, bowsVars>>

\* `b.resolve()`: the value returned is kept in ret, b is borrowed shared.
CallBtResolve ==
    /\ capture.ctor # "none"
    /\ capture' = [capture EXCEPT !.ret = BacktraceResolve(capture.bt)]
    /\ UNCHANGED <<progVars, symVars, machoVars, mapsVars, libbtVars, bowsVars>>

\* `b.frames()`, or frames() of the value resolve returned.
CallFrames(of) ==
    /\ capture.ctor # "none"
    /\ of = "ret" => capture.ret # Unset
    /\ capture' = [capture EXCEPT !.out =
            [of |-> of,
             frames |-> BacktraceFrames(IF of = "bt" THEN capture.bt ELSE capture.ret)]]
    /\ UNCHANGED <<progVars, symVars, machoVars, mapsVars, libbtVars, bowsVars>>

CaptureNext ==
    \/ CallNew
    \/ CallNewUnresolved
    \/ CallBtResolve
    \/ \E of \in {"bt", "ret"} : CallFrames(of)

CaptureSpec == CaptureInit /\ [][CaptureNext]_vars

----------------------------------------------------------------------------
(* Claims about the lock and the entry points *)

\* Activation k of thread t runs inside an activation that holds the guard.
NestedUnderGuard(t, k) == \E j \in 1..(k - 1) : stack[t][j].guard

\* lock() has returned None to activation k of thread t.
GotNone(t, k) ==
    /\ stack[t][k].user
    /\ stack[t][k].pc \notin {"lock", "acquire"}
    /\ ~stack[t][k].guard

\* C1: lock() is non-reentrant and never blocks its own holder.  A thread
\* that holds a LockGuard is never waiting for the Mutex and never gets a
\* second guard (its nested lock() returned None), the Mutex stays with it
\* meanwhile, and whoever was given a guard by lock() owns the Mutex.
C1_LockNonReentrant ==
    \A t \in Threads : \A k \in 1..Len(stack[t]) :
        /\ stack[t][k].guard => mutexOwner = t
        /\ NestedUnderGuard(t, k) =>
              /\ stack[t][k].pc # "acquire"
              /\ ~stack[t][k].guard
              /\ mutexOwner = t

\* C1 witness: a nested lock() has returned None to a thread holding the
\* guard, while another thread is blocked on the Mutex.
C1_Witness ==
    \E t \in Threads : \E k \in 1..Len(stack[t]) :
        /\ NestedUnderGuard(t, k) /\ GotNone(t, k)
        /\ \E u \in Threads \ {t} :
              stack[u] # << >> /\ Top(u).pc = "acquire"

InCache(t) ==
    \E k \in 1..Len(stack[t]) :
        LET a == stack[t][k] IN
        /\ a.op = "resolve"
        /\ \/ a.pc \in {"construct", "incache", "frames"}
           \/ a.pc = "cb" /\ a.out[Len(a.out)].tier \in {"Frame", "Symtab"}

\* C3 as claimed: at most one thread holds a LockGuard, and a thread that
\* has the global cache borrowed (fetching, inserting, evicting, reordering)
\* holds it.
C3_CacheOnlyUnderGuard ==
    /\ Cardinality({t \in Threads : HoldsGuard(t)}) <= 1
    /\ \A t \in Threads : InCache(t) => HoldsGuard(t)

\* The consequence C3 draws: no two threads have the global cache borrowed
\* at the same moment.
C3_CacheExclusive == Cardinality({t \in Threads : InCache(t)}) <= 1

----------------------------------------------------------------------------
(* Claims about the mapping cache and the tiers of resolve *)

\* The libraries of the cache entries, front first.
CachedLibs == [k \in 1..Len(mappings) |-> mappings[k].lib]

\* C4: after any sequence of resolve and clear_symbol_cache calls the mapping
\* cache holds at most MAPPINGS_CACHE_SIZE entries.
C4_CacheBounded == Len(mappings) <= MAPPINGS_CACHE_SIZE

\* C4 witness: the cache is full after more libraries than it can hold were
\* mapped since the last clear.
C4_Witness ==
    /\ Len(mappings) = MAPPINGS_CACHE_SIZE
    /\ Len(refs) > MAPPINGS_CACHE_SIZE

\* C5: the cache is the list of the libraries mapped since the last clear in
\* order of their latest reference, most recent first, cut to capacity: once
\* more than MAPPINGS_CACHE_SIZE distinct libraries were resolved it holds
\* exactly the MAPPINGS_CACHE_SIZE most recently referenced ones.
C5_LruOrder ==
    /\ Len(refs) > MAPPINGS_CACHE_SIZE
          => CachedLibs = SubSeq(refs, 1, MAPPINGS_CACHE_SIZE)
    /\ Len(refs) <= MAPPINGS_CACHE_SIZE => CachedLibs = refs

\* C5 witness: five libraries were resolved, 2 first and 1 last (again, by a
\* hit or after an eviction); library 2 is the one missing from the cache.
C5_Witness ==
    /\ refs = <<1, 7, 5, 4, 2>>
    /\ CachedLibs = <<1, 7, 5, 4>>

\* The resolve activations of thread t, as indices of its stack.
Resolves(t) == {k \in 1..Len(stack[t]) : stack[t][k].op = "resolve"}

\* The tiers of the symbols an activation has delivered, in order.
Tiers(act) == [j \in 1..Len(act.out) |-> act.out[j].tier]

\* Address addr has reached resolve's body in activation act.
Entered(act) ==
    act.pc \in {"frames0", "construct", "incache", "frames", "cb", "drop", "ret"}

\* Image i is loaded over the address: one of its segments, placed at its
\* load bias, contains it.
LoadedAt(i, addr) ==
    \E k \in 1..Len(Segments(i)) :
        LET lo == Bias(i) + Segments(i)[k].stated_virtual_memory_address
        IN addr \in lo..(lo + Segments(i)[k].len - 1)

\* The library (0 for none) the address lies in, the first in load order.
LibOf(addr) ==
    IF \E i \in Libs : LoadedAt(i, addr)
    THEN CHOOSE i \in Libs :
            LoadedAt(i, addr) /\ \A j \in 1..(i - 1) : ~LoadedAt(j, addr)
    ELSE 0

\* The file's debug sections are corrupted, whatever way addr2line trips.
CorruptDwarf(f) == FileKind(f) \in {"ctxfail", "lookupfail", "iterfail"}

\* A function symbol of the file's symbol table covers the file address.
SymtabCovers(f, a) ==
    \E j \in 1..Len(FileSyms(f)) :
        /\ FileSyms(f)[j].address <= a
        /\ a < FileSyms(f)[j].address + FileSyms(f)[j].size

\* The address lies in a library with corrupted DWARF and an intact symbol
\* table that covers it.
CorruptButCovered(addr) ==
    /\ LibOf(addr) # 0
    /\ CorruptDwarf(LibOf(addr))
    /\ SymtabCovers(LibOf(addr), addr - Bias(LibOf(addr)))

\* C6 as claimed: for an address inside a library whose DWARF is corrupted
\* and whose symbol table is intact and covers it, resolve delivers no Frame
\* symbol and has delivered exactly one symbol, a Symtab, when it returns.
C6_CorruptDwarfYieldsSymtab ==
    \A t \in Threads : \A k \in Resolves(t) :
        LET act == stack[t][k] IN
        (Entered(act) /\ CorruptButCovered(act.addr))
        => /\ \A j \in 1..Len(act.out) : act.out[j].tier # "Frame"
           /\ act.pc = "ret" => Tiers(act) = <<"Symtab">>

\* The tiers in `ts` are those of one tier only.
SingleTier(ts) ==
    \/ ts = << >>
    \/ \A j \in 1..Len(ts) : ts[j] = "Frame"
    \/ ts = <<"Symtab">>
    \/ ts = <<"Dladdr">>

\* C7: within one resolve call the callback receives one or more Frame
\* symbols, or exactly one Symtab symbol, or at most one Dladdr symbol, and
\* never symbols of two tiers.
C7_SingleTier ==
    \A t \in Threads : \A k \in Resolves(t) : SingleTier(Tiers(stack[t][k]))

\* C7 witness: resolve returns with two Frame symbols for an address that
\* the file's symbol table and the loader know as well.
C7_Witness ==
    \E k \in Resolves(1) :
        LET act == stack[1][k] IN
        /\ act.pc = "ret"
        /\ Tiers(act) = <<"Frame", "Frame">>
        /\ SymtabCovers(LibOf(act.addr), act.svma)
        /\ dladdr(act.addr) # None

\* An earlier tier (Frame or Symtab) has invoked the callback.
EarlierTierCalled(act) ==
    \E j \in 1..Len(act.out) : act.out[j].tier \in {"Frame", "Symtab"}

\* C8: resolve queries the loader at most once, with the address it was
\* called with, only when no earlier tier has invoked the callback, and by
\* the time it returns it has queried it whenever no earlier tier did.
C8_DladdrExactlyOnMiss ==
    \A t \in Threads : \A k \in Resolves(t) :
        LET act == stack[t][k] IN
        /\ Len(act.dl) <= 1
        /\ \A j \in 1..Len(act.dl) : act.dl[j] = act.addr
        /\ act.dl # << >> => ~EarlierTierCalled(act)
        /\ act.pc = "ret" => (act.dl # << >> <=> ~EarlierTierCalled(act))

\* C8 witness: the address lies in a mapped library, neither its DWARF nor
\* its symbol table knows it, and the loader was asked about the address as
\* given, which is not the file-relative one.
C8_Witness ==
    \E k \in Resolves(1) :
        LET act == stack[1][k] IN
        /\ act.pc = "ret"
        /\ act.cx # None
        /\ act.svma # act.addr
        /\ act.dl = <<act.addr>>

\* The address lies in no enumerated library and the loader does not know it.
TotalMiss(addr) == LibOf(addr) = 0 /\ dladdr(addr) = None

\* C9: while resolve works on a total miss it never invokes the callback,
\* never changes the mapping cache, and goes straight from with_global to
\* the loader query to its return.
C9_TotalMissIsSilent ==
    [][\A t \in Threads :
         (/\ stack[t] # << >>
          /\ Top(t).op = "resolve"
          /\ Entered(Top(t))
          /\ TotalMiss(Top(t).addr))
         => /\ mappings' = mappings
            /\ Top(t).out = << >>
            /\ Top(t).pc \in {"frames0", "construct", "incache", "drop", "ret"}
            /\ \/ stack'[t] = SubSeq(stack[t], 1, Len(stack[t]) - 1)
               \/ /\ Len(stack'[t]) = Len(stack[t])
                  /\ stack'[t][Len(stack[t])].out = << >>
                  /\ stack'[t][Len(stack[t])].pc
                        \in {"construct", "incache", "drop", "ret"}]_vars

\* C9 witness: resolve of a total miss is about to return, the loader was
\* asked, nothing was delivered, and the cache holds mappings.
C9_Witness ==
    /\ stack[1] # << >>
    /\ Top(1).op = "resolve" /\ Top(1).pc = "ret"
    /\ TotalMiss(Top(1).addr)
    /\ Top(1).dl = <<Top(1).addr>>
    /\ Top(1).out = << >>
    /\ Len(mappings) = 2

\* C10: a resolve of the probed address that follows an earlier one with no
\* clear_symbol_cache in between, whatever was resolved meanwhile, returns
\* having delivered the same symbols in the same order; the cache stays
\* within its capacity.
C10_Idempotent ==
    /\ \A t \in Threads :
          (/\ stack[t] # << >>
           /\ Top(t).op = "resolve" /\ Top(t).user
           /\ Top(t).pc = "ret"
           /\ Top(t).addr = probe
           /\ probeRes.set)
          => Top(t).out = probeRes.out
    /\ Len(mappings) <= MAPPINGS_CACHE_SIZE

\* C10 witness: the probed address is resolved again with symbols delivered,
\* after more libraries than the cache holds were resolved since the clear.
C10_Witness ==
    /\ stack[1] # << >>
    /\ Top(1).op = "resolve" /\ Top(1).pc = "ret"
    /\ Top(1).addr = probe
    /\ probeRes.set
    /\ Top(1).out # << >>
    /\ Len(refs) > MAPPINGS_CACHE_SIZE
    /\ LibOf(probe) # 0
    /\ refs[1] = LibOf(probe)

----------------------------------------------------------------------------
(* Further claims about the cache *)

\* C11: the symbols resolve delivers for the probed address are those of
\* its first resolve ever, whatever the cache holds: also after a
\* clear_symbol_cache and after the library's mapping was evicted.
C11_CacheNeutral ==
    \A t \in Threads :
        (/\ stack[t] # << >>
         /\ Top(t).op = "resolve" /\ Top(t).user
         /\ Top(t).pc = "ret"
         /\ Top(t).addr = probe
         /\ probeFirst.set)
        => Top(t).out = probeFirst.out

\* C11 witness: the probed address, resolved before with symbols of its
\* library, is resolved again as the first resolve of it after a clear.
C11_Witness ==
    /\ stack[1] # << >>
    /\ Top(1).op = "resolve" /\ Top(1).pc = "ret"
    /\ Top(1).addr = probe
    /\ probeFirst.set /\ ~probeRes.set
    /\ Top(1).out # << >>
    /\ Top(1).out[1].tier \in {"Frame", "Symtab"}

\* C12: for an address inside a segment of an enumerated library,
\* avma_to_svma returns that library's index in the list and the address
\* less the library's bias, which lies in the stated range of the segment.
C12_Translation ==
    \A t \in Threads : \A k \in Resolves(t) :
        LET act == stack[t][k]
            M == LibOf(act.addr)
        IN (act.pc \in {"frames", "cb", "drop", "ret"} /\ M # 0 /\ M \in loaded)
           => /\ act.lib \in 1..Len(libraries)
              /\ libraries[act.lib].name = M
              /\ act.svma = act.addr - Bias(M)
              /\ \E j \in 1..Len(Segments(M)) :
                    LET S == Segments(M)[j] IN
                    /\ LoadedAt(M, act.addr)
                    /\ Bias(M) + S.stated_virtual_memory_address <= act.addr
                    /\ act.svma >= S.stated_virtual_memory_address
                    /\ act.svma < S.stated_virtual_memory_address + S.len

\* C12 witness: the last address of the second segment of library 2 was
\* translated.
C12_Witness ==
    \E k \in Resolves(1) :
        /\ stack[1][k].pc = "frames"
        /\ stack[1][k].addr = Bias(2) + 11
        /\ stack[1][k].lib = 2
        /\ stack[1][k].svma = 11

\* Building the mapping of file f fails: open or mmap, Object::parse or the
\* construction of the DWARF context.
BuildFails(f) == FileKind(f) \in {"nofile", "noobject", "ctxfail"}

\* The file of entry `lib` of the library list.
FileOf(lib) == libraries[lib].name

\* C13: when building the mapping of a library fails, mapping_for_lib
\* returns None and leaves the cache with the entries it had, in the same
\* order; no entry of such a library is ever in the cache.
C13_FailedMissKeepsCache ==
    /\ \A k \in 1..Len(mappings) : ~BuildFails(FileOf(mappings[k].lib))
    /\ \A t \in Threads : \A k \in Resolves(t) :
          LET act == stack[t][k] IN
          /\ (act.pc \in {"frames", "cb", "drop", "ret"} /\ act.lib # 0
                 /\ BuildFails(FileOf(act.lib)))
             => act.cx = None
          /\ (act.pc = "drop" /\ act.lib # 0 /\ act.cx = None)
             => BuildFails(FileOf(act.lib)) /\ mappings = act.before

\* C13 witness: mapping_for_lib has returned None for a file that is no
\* object file while the cache was full.
C13_Witness ==
    \E k \in Resolves(1) :
        LET act == stack[1][k] IN
        /\ act.pc = "drop" /\ act.lib # 0 /\ act.cx = None
        /\ FileKind(FileOf(act.lib)) = "noobject"
        /\ Len(act.before) = MAPPINGS_CACHE_SIZE
        /\ mappings = act.before

\* The entries of `ms` that are not of library `lib`, in their order.
Others(ms, lib) == SelectSeq(ms, LAMBDA entry : entry.lib # lib)

\* C14: on a cache hit the entry of the requested library is at index 1
\* afterwards, it is the entry that was cached and its context is the one
\* returned, no entry is gone or new, and the other entries keep their order.
C14_HitMovesToFront ==
    \A t \in Threads : \A k \in Resolves(t) :
        LET act == stack[t][k] IN
        \A j \in 1..Len(act.before) :
            (act.pc = "frames" /\ act.before[j].lib = act.lib)
            => /\ Len(mappings) = Len(act.before)
               /\ mappings[1] = act.before[j]
               /\ act.cx = act.before[j].mapping.cx
               /\ Others(mappings, act.lib) = Others(act.before, act.lib)

\* C14 witness: the hit was on the last entry of a full cache.
C14_Witness ==
    \E k \in Resolves(1) :
        LET act == stack[1][k] IN
        /\ act.pc = "frames"
        /\ Len(act.before) = MAPPINGS_CACHE_SIZE
        /\ act.before[MAPPINGS_CACHE_SIZE].lib = act.lib
        /\ mappings[1].lib = act.lib

\* Thread t is about to run the closure of clear_symbol_cache.
ClearStep(t) ==
    /\ stack[t] # << >>
    /\ Top(t).op = "clear_symbol_cache" /\ Top(t).pc = "incache"
    /\ stack'[t] # stack[t]

\* C15 as claimed: the library list is enumerated when the global cache is
\* first used, a step of clear_symbol_cache leaves it as the list of the
\* images loaded at that moment, and no other step changes it.
C15_ClearRebuildsLibraries ==
    [][/\ (~MAPPINGS_CACHE /\ MAPPINGS_CACHE') => libraries' = native_libraries
       /\ \A t \in Threads : ClearStep(t) => libraries' = native_libraries
       /\ (MAPPINGS_CACHE /\ \A t \in Threads : ~ClearStep(t))
             => libraries' = libraries]_vars

\* C16: once the closure of clear_symbol_cache has run, whatever the cache
\* held and also when the call itself had to construct the global cache,
\* the global cache exists and its mapping list is empty.
C16_ClearEmpties ==
    \A t \in Threads : \A k \in 1..Len(stack[t]) :
        (stack[t][k].op = "clear_symbol_cache" /\ stack[t][k].pc = "ret")
        => MAPPINGS_CACHE /\ mappings = << >>

\* C16 witness: clear_symbol_cache has run on a full cache.
C16_Witness ==
    /\ stack[1] # << >>
    /\ Top(1).op = "clear_symbol_cache" /\ Top(1).pc = "ret"
    /\ Len(Top(1).before) = MAPPINGS_CACHE_SIZE
    /\ mappings = << >>

----------------------------------------------------------------------------
(* Further claims about the entry points *)

\* The trace activations of thread t, as indices of its stack.
Traces(t) == {k \in 1..Len(stack[t]) : stack[t][k].op = "trace"}

\* C17: trace passes the frames in the backend's order, the first first,
\* with one invocation of the callback per frame; every invocation but the
\* last returned true, and after one that returned false trace is about to
\* return with no further invocation; when the backend cannot be set up
\* the callback is not invoked.
C17_TraceOrderAndStop ==
    \A t \in Threads : \A k \in Traces(t) :
        LET act == stack[t][k] IN
        /\ act.out = [j \in 1..Len(act.out) |-> j]
        /\ Len(act.rets) = IF act.pc = "cb" THEN Len(act.out) - 1
                           ELSE Len(act.out)
        /\ \A j \in 1..(Len(act.rets) - 1) : act.rets[j]
        /\ (act.rets # << >> /\ ~act.rets[Len(act.rets)])
              => act.pc = "ret" /\ act.stop = "callback"
        /\ act.stop = "initfail" => act.out = << >> /\ act.pc = "ret"

\* C17 witness: the callback has returned false for the first frame while
\* the stack had more, and trace is about to return.
C17_Witness ==
    \E t \in Threads : \E k \in Traces(t) :
        /\ stack[t][k].pc = "ret"
        /\ stack[t][k].out = <<1>>
        /\ stack[t][k].rets = <<FALSE>>
        /\ 1 < MaxFrames

\* Thread t is about to store a new Cache into MAPPINGS_CACHE.
ConstructStep(t) ==
    /\ stack[t] # << >>
    /\ Top(t).pc = "construct"
    /\ stack'[t] # stack[t]

\* C18 as claimed: the global Mutex and the global cache, once constructed,
\* stay: no step takes them away and no step stores a second Cache over the
\* one that MAPPINGS_CACHE holds.
C18_SingletonsConstructedOnce ==
    [][/\ LOCK => LOCK'
       /\ MAPPINGS_CACHE => MAPPINGS_CACHE'
       /\ \A t \in Threads : ConstructStep(t) => ~MAPPINGS_CACHE]_vars

\* Thread t owns a share of the named mutex: it holds an Init or is in init
\* past the wait.
PastWait(t) == inits[t].held > 0 \/ inits[t].pc \in {"open", "setup"}

\* C19: while a thread holds an Init no other thread is past the wait of its
\* own init call or holds an Init; a thread that calls init while it holds
\* an Init is not kept waiting; and the named mutex is free when no Init is
\* held and nobody is inside init past the wait.
C19_InitSerialises ==
    /\ \A t, u \in Threads : (PastWait(t) /\ PastWait(u)) => t = u
    /\ \A t \in Threads : PastWait(t) => dbghelp.owner = t
    /\ \A t \in Threads :
          (inits[t].held > 0 /\ inits[t].pc = "wait")
          => MutexAvailable(dbghelp, t)
    /\ (\A t \in Threads : ~PastWait(t))
          => dbghelp.owner = 0 /\ dbghelp.count = 0

\* C19 witness: a thread holds two Init values, the second from a recursive
\* init, while another thread waits for the mutex.
C19_Witness ==
    \E t, u \in Threads :
        /\ t # u
        /\ inits[t].held = 2 /\ inits[t].pc = "idle"
        /\ inits[u].pc = "wait"
        /\ dbghelp.count = 2

\* C20 as claimed: no call of trace or format_trace has allocated memory,
\* the first call in the process included.
C20_CaptureNeverAllocates ==
    \A t \in Threads : \A k \in 1..Len(stack[t]) :
        stack[t][k].op \in {"trace", "format_trace"} => ~stack[t][k].alloc

----------------------------------------------------------------------------
(* Claims about the object parsers *)

\* The record of the examined file that entry e of the parsed table names.
RecordOf(e) == symFile.symbols[e.name]

\* The record is one the format's parser is to keep.
Defined(r) ==
    CASE symFile.format = "elf" ->
            r.st_type \in {"FUNC", "OBJECT"} /\ r.st_shndx # 0
      [] symFile.format = "macho" -> r.named /\ ~r.undefined
      [] OTHER -> r.dtype = "FUNCTION" /\ r.section_number # 0

\* C21: after a successful parse the symbol table is in ascending order of
\* address and every entry comes from a record the format keeps: ELF a FUNC
\* or OBJECT symbol outside SHN_UNDEF, Mach-O a named, defined symbol, PE a
\* function-typed symbol whose section number is not 0.
C21_SymtabSortedAndDefined ==
    Parsed(symObject) =>
        /\ \A i, j \in 1..Len(symObject.syms) :
              i < j => symObject.syms[i].address <= symObject.syms[j].address
        /\ \A i \in 1..Len(symObject.syms) : Defined(RecordOf(symObject.syms[i]))

\* C21 witness: a parsed table of two or more entries whose file lists a
\* higher address before a lower one and holds a record that was left out.
C21_Witness ==
    /\ Parsed(symObject)
    /\ Len(symObject.syms) >= 2
    /\ Len(symObject.syms) < Len(symFile.symbols)
    /\ symObject.syms[1].name > symObject.syms[2].name
    /\ symObject.syms[1].address < symObject.syms[2].address

\* The entries of the parsed table at or below the address looked up, and
\* those among them of the greatest address.
AtOrBelow == {i \in 1..Len(symObject.syms) : symObject.syms[i].address <= symFound.addr}

Closest ==
    {i \in AtOrBelow :
        \A j \in AtOrBelow : symObject.syms[j].address <= symObject.syms[i].address}

\* A search has run on a table of a format without symbol sizes.
SearchedUnsized ==
    /\ Parsed(symObject)
    /\ symObject.format \in {"macho", "pe"}
    /\ symFound # Unset

\* C22 as claimed: on Mach-O and PE search_symtab(addr) returns the name of
\* a symbol of the greatest address at or below addr, and nothing exactly
\* when no symbol is at or below addr.
C22_ClosestPreceding ==
    SearchedUnsized =>
        /\ symFound.res = None <=> AtOrBelow = {}
        /\ symFound.res # None =>
              \E i \in Closest : symObject.syms[i].name = symFound.res.name

\* C22 amended: on Mach-O and PE search_symtab(addr) returns the name of a
\* symbol of the greatest address at or below addr; it returns nothing when
\* no symbol is at or below addr, and on PE also when the name of the
\* closest symbol cannot be read from the string table, and in no other
\* case.
C22_ClosestPrecedingReadable ==
    SearchedUnsized =>
        /\ AtOrBelow = {} => symFound.res = None
        /\ symFound.res = None =>
              \/ AtOrBelow = {}
              \/ /\ symObject.format = "pe"
                 /\ \E i \in Closest : ~symObject.syms[i].nameok
        /\ symFound.res # None =>
              \E i \in Closest :
                 /\ symObject.syms[i].name = symFound.res.name
                 /\ symObject.format = "pe" => symObject.syms[i].nameok

\* C22 witness: a table of three symbols of three addresses, a lookup
\* strictly between the second and the third, answered with the second.
C22_Witness ==
    /\ SearchedUnsized
    /\ Len(symObject.syms) = 3
    /\ symObject.syms[1].address < symObject.syms[2].address
    /\ symObject.syms[2].address < symFound.addr
    /\ symFound.addr < symObject.syms[3].address
    /\ symFound.res = [name |-> symObject.syms[2].name]

\* C23 as claimed: on ELF search_symtab(addr) returns a name only when addr
\* lies in the range of the closest symbol at or below it,
\* start <= addr < start + size, and that name is this symbol's.
C23_ElfExactRange ==
    (/\ Parsed(symObject)
     /\ symObject.format = "elf"
     /\ symFound # Unset
     /\ symFound.res \notin {None, Panicked})
    => \E i \in Closest :
          /\ symObject.syms[i].name = symFound.res.name
          /\ symObject.syms[i].address <= symFound.addr
          /\ symFound.addr < symObject.syms[i].address + symObject.syms[i].size

\* C24 as claimed: on Mach-O, Mapping::new takes the object of a dSYM file
\* only when that file's UUID is the binary's, and whenever the binary can
\* be read and parsed and its own object is sound, it returns a mapping: the
\* binary's own when no dSYM file was taken.
C24_DsymOnlyOnMatch ==
    (macho # NoFile /\ macho.mapping # Unset) =>
        /\ (macho.mapping # None /\ macho.mapping.from = "dsym") =>
              LET f == macho.entries[macho.mapping.entry].files[macho.mapping.file]
              IN f.uuid = macho.binary.uuid /\ f.uuid # 0
        /\ (macho.binary.parsable /\ macho.binary.object) =>
              macho.mapping # None

----------------------------------------------------------------------------
(* Claims about the parser of /proc/self/maps *)

\* C25 as claimed: a well-formed line parses into the entry of the fields
\* it was written from: the address pair, the four permission characters,
\* offset, dev and inode as the hexadecimal numbers written, and the whole
\* pathname field, empty when the line has none.
C25_MapsEntryOfLine ==
    (maps # NoFile /\ maps.entry # Unset) =>
        /\ maps.entry.ok
        /\ maps.entry.address = <<maps.fields.start, maps.fields.limit>>
        /\ maps.entry.perms = maps.fields.perms
        /\ maps.entry.offset = maps.fields.offset
        /\ maps.entry.dev = <<maps.fields.major, maps.fields.minor>>
        /\ maps.entry.inode = maps.fields.inode
        /\ maps.entry.pathname = maps.fields.pathname

----------------------------------------------------------------------------
(* Claims about Backtrace *)

\* C26 as claimed: after Backtrace::new_unresolved() and resolve() on the
\* value, frames() of that value does not panic and returns one entry per
\* frame the walker yielded, in order, with its ip and symbol address.
C26_ResolveLeavesResolved ==
    (/\ capture # NoFile
     /\ capture.ctor = "new_unresolved"
     /\ capture.ret # Unset
     /\ capture.out # Unset
     /\ capture.out.of = "bt")
    => /\ capture.out.frames # Panicked
       /\ Len(capture.out.frames) = Len(capture.stack)
       /\ \A i \in 1..Len(capture.stack) :
             /\ capture.out.frames[i].ip = capture.stack[i].ip
             /\ capture.out.frames[i].symbol_address = capture.stack[i].symbol_address

\* The frames a Backtrace value holds, resolved or not.
HeldFrames(bt) ==
    IF bt.kind = "Resolved" THEN bt.frames ELSE bt.unresolved_frames

\* C27 as claimed: the first frame of a backtrace captured by Backtrace::new
\* or Backtrace::new_unresolved is the frame of the function that called
\* the constructor.
C27_StartsAtCallSite ==
    (capture # NoFile /\ capture.ctor # "none" /\ capture.stack # << >>)
    => /\ HeldFrames(capture.bt) # << >>
       /\ HeldFrames(capture.bt)[1].symbol_address = FnAddr(CallerNames[1])

----------------------------------------------------------------------------
(* Claims about arithmetic on values read from files *)

\* C28 as claimed: neither Object::parse nor search_symtab ends in an
\* overflow panic, whatever symbol values, sizes and image base the file
\* holds.
C28_NoOverflow ==
    /\ symObject # Panicked
    /\ symFound # Unset => symFound.res # Panicked

----------------------------------------------------------------------------
(* Claims about the two lock layers and the contexts handed out *)

\* The activation still uses the context it got from mapping_for_lib, a
\* reference into the entry at the front of the mapping list: it is in the
\* frame loop, or its callback runs on a symbol of that context.
UsesContext(act) ==
    /\ act.op = "resolve"
    /\ act.cx # None
    /\ \/ act.pc = "frames"
       \/ /\ act.pc = "cb"
          /\ act.out[Len(act.out)].tier \in {"Frame", "Symtab"}

\* C29 as claimed: while a resolve call uses a context obtained from the
\* cache, the entry owning it is still the front entry of the mapping list,
\* where mapping_for_lib left it.
C29_ContextStaysCached ==
    \A t \in Threads : \A k \in 1..Len(stack[t]) :
        UsesContext(stack[t][k]) =>
            /\ mappings # << >>
            /\ mappings[1].lib = stack[t][k].lib

\* Thread t waits for the in-process Mutex, which thread u owns.
WaitsForLock(t, u) ==
    /\ stack[t] # << >>
    /\ Top(t).pc = "acquire"
    /\ mutexOwner = u

\* Thread t waits for the named mutex of dbghelp::init, which thread u owns.
WaitsForDbghelp(t, u) ==
    /\ inits[t].pc = "wait"
    /\ dbghelp.owner = u

\* C30 as claimed: the two lock layers are taken in one order, so no thread
\* waits for the in-process lock while it owns the dbghelp mutex that the
\* owner of the in-process lock is waiting for.
C30_NoCircularWait ==
    \A t, u \in Threads :
        t # u => ~(WaitsForLock(t, u) /\ WaitsForDbghelp(u, t))

----------------------------------------------------------------------------
(* Claims about the cache entry behind a context *)

\* The resolve activation act has just got a context from mapping_for_lib
\* and has not called back yet.
GotContext(act) ==
    /\ act.op = "resolve"
    /\ act.pc = "frames"
    /\ act.cx # None

\* C31: whenever mapping_for_lib(lib) has returned a context, the entry at
\* index 0 of the cache is the entry of lib and the context returned is the
\* one that entry owns, after a hit and after a miss that inserted an entry.
C31_FrontEntryOwnsContext ==
    \A t \in Threads :
        (stack[t] # << >> /\ GotContext(Top(t))) =>
            /\ mappings # << >>
            /\ mappings[1].lib = Top(t).lib
            /\ mappings[1].mapping.cx = Top(t).cx

\* C31 witness: mapping_for_lib has returned the context of a library it
\* found further back in the cache, behind other entries.
C31_Witness ==
    \E t \in Threads :
        /\ stack[t] # << >> /\ GotContext(Top(t))
        /\ \E k \in 2..Len(Top(t).before) : Top(t).before[k].lib = Top(t).lib
        /\ Len(mappings) = Len(Top(t).before)

----------------------------------------------------------------------------
(* Claims about the handle of the named mutex *)

\* The threads inside init that have their `lock` settled: past the
\* compare_exchange or the non-null load.
HasLock(t) == inits[t].pc \in {"wait", "open", "setup"}

\* C32: under any interleaving of first calls to dbghelp::init one handle is
\* stored in LOCK and stays there once LOCK is non-null; it is a handle
\* that was created and is not closed; every caller waits on it; and every
\* other handle created is closed once its creator is past the
\* compare_exchange.
C32_OneHandle ==
    /\ [](/\ dbghelp.LOCK # 0
              => dbghelp.LOCK \in dbghelp.created \ dbghelp.closed
          /\ \A t \in Threads :
                HasLock(t) => inits[t].lock = dbghelp.LOCK /\ dbghelp.LOCK # 0
          /\ \A h \in dbghelp.created :
                \/ h = dbghelp.LOCK
                \/ h \in dbghelp.closed
                \/ \E t \in Threads : inits[t].pc = "cas" /\ inits[t].lock = h)
    /\ [][dbghelp.LOCK # 0 => dbghelp'.LOCK = dbghelp.LOCK]_vars

\* C32 witness: two threads created a handle each; the one that lost the
\* compare_exchange has closed its own and waits on the stored one.
C32_Witness ==
    \E t, u \in Threads :
        /\ t # u
        /\ dbghelp.LOCK = t
        /\ u \in dbghelp.closed
        /\ inits[u].pc = "wait" /\ inits[u].lock = t

----------------------------------------------------------------------------
(* Claims about LOCK_HELD on the panic paths *)

\* Thread t is inside lock(), between LOCK_HELD.set(true) and the return of
\* Mutex::lock.
InsideLock(t) == \E k \in 1..Len(stack[t]) : stack[t][k].pc = "acquire"

\* C33 as claimed: outside lock() the LOCK_HELD flag of a thread is true
\* exactly when the thread owns a live LockGuard, also after lock() has
\* panicked on a poisoned Mutex.
C33_HeldIffGuard ==
    \A t \in Threads :
        ~InsideLock(t) =>
            (LOCK_HELD[t] <=> \E k \in 1..Len(stack[t]) : stack[t][k].guard)

\* C34: after any sequence of resolve and clear_symbol_cache calls no two
\* entries of the mapping cache have the same library index.
C34_NoDuplicateEntries ==
    \A j, k \in 1..Len(mappings) :
        mappings[j].lib = mappings[k].lib => j = k

\* C34 witness: the cache is full and a library that already had an entry
\* behind the front has just been resolved again.
C34_Witness ==
    /\ Len(mappings) = MAPPINGS_CACHE_SIZE
    /\ stack[1] # << >>
    /\ Top(1).op = "resolve" /\ Top(1).pc = "frames"
    /\ Len(Top(1).before) = MAPPINGS_CACHE_SIZE
    /\ Top(1).before[MAPPINGS_CACHE_SIZE].lib = Top(1).lib

----------------------------------------------------------------------------
(* Claims about lookups among overlapping ELF symbols *)

\* The entries of the parsed ELF table whose range start <= addr <
\* start + size contains the address looked up.
Containing ==
    {i \in 1..Len(symObject.syms) :
        /\ symObject.syms[i].address <= symFound.addr
        /\ symFound.addr < symObject.syms[i].address + symObject.syms[i].size}

\* C35 as claimed: on ELF, whenever a symbol of the table has a range that
\* contains addr, search_symtab(addr) returns the name of a symbol whose
\* range contains addr, also when symbols overlap, nest, share a start
\* address or have size zero.  Tables with a range that leaves the address
\* space are set aside.
C35_ElfFindsContaining ==
    (/\ Parsed(symObject)
     /\ symObject.format = "elf"
     /\ symFound # Unset
     /\ \A i \in 1..Len(symObject.syms) :
            symObject.syms[i].address + symObject.syms[i].size < Word
     /\ Containing # {})
    => /\ symFound.res # None
       /\ \E i \in Containing : symObject.syms[i].name = symFound.res.name

\* The acquisitions of the named mutex thread t is to release: one per Init
\* it holds and one for the Init of a call of init that is past the wait.
Acquisitions(t) ==
    inits[t].held + (IF inits[t].pc \in {"open", "setup"} THEN 1 ELSE 0)

\* C36: every return path of dbghelp::init leaves the named mutex balanced:
\* a thread owns the mutex as many times as it holds Init values (plus the
\* one of a call still past the wait), so a call that returned Err has left
\* no acquisition behind and each Init accounts for exactly one release.
C36_MutexBalanced ==
    \A t \in Threads :
        Acquisitions(t) = IF dbghelp.owner = t THEN dbghelp.count ELSE 0

\* C36 witness: init has stored the handle and taken the mutex, dbghelp.dll
\* could not be loaded, and every thread is back outside init with no Init:
\* the mutex is free.
C36_Witness ==
    /\ dbghelp.LOCK # 0
    /\ ~dbghelp.opened
    /\ \A t \in Threads : inits[t] = NoInit
    /\ dbghelp.owner = 0 /\ dbghelp.count = 0

----------------------------------------------------------------------------
(* Claims about malformed lines *)

\* C37 as claimed: MapsEntry::from_str returns Ok or Err for every line and
\* never panics, in the default and in the nto format, also for empty or
\* short fields, fields without '0x' and sums beyond the machine word.
C37_FromStrNeverPanics ==
    (maps.format = "raw" /\ maps.entry # Unset) => maps.entry # Panicked

----------------------------------------------------------------------------
(* Claims about the frames format_trace prints *)

\* The frames a finished format_trace is to have printed: in Short mode
\* with its own frame at position e those after e, else all n.
ToPrint(act) ==
    LET first == IF act.mode = "Short" /\ act.e \in 1..act.n
                 THEN act.e + 1 ELSE 1
    IN [j \in 1..(act.n - first + 1) |-> first + j - 1]

----------------------------------------------------------------------------
(* Claims about the libbacktrace backend *)

\* The kinds of the symbols cb has received in the resolve call.
Delivered == {libbt.out[j] : j \in 1..Len(libbt.out)}

\* C39 as claimed: in the libbacktrace backend one resolve call never
\* delivers both Pcinfo and Syminfo symbols to the callback: the syminfo
\* fallback runs only if the pcinfo pass delivered nothing.
C39_PcinfoOrSyminfo ==
    libbt.format = "libbt" => ~({"Pcinfo", "Syminfo"} \subseteq Delivered)

----------------------------------------------------------------------------
(* Claims about BytesOrWideString *)

\* C40 as claimed: into_path_buf returns a PathBuf for every value on
\* every platform, Bytes or Wide and valid UTF-8 or not, and never reaches
\* its unreachable!() branch.
C40_IntoPathBufTotal ==
    (bows.format = "bows" /\ bows.out # Unset) => bows.out # Panicked

====
